---- MODULE Spec2Model ----
(***************************************************************************)
(* A model of the real-time audio core of koto: the graph scheduler        *)
(* (koto-audio-graph/src/schedule.rs, graph.rs), the buffer pool           *)
(* (koto-audio-engine/src/buffer_pool.rs) and the command/event channels   *)
(* with the audio callback (koto-audio-engine/src/engine.rs, callback.rs). *)
(*                                                                         *)
(* The module holds one specification per component.  All of them share    *)
(* the variables below; a specification leaves the variables of the other  *)
(* components at their initial values.                                     *)
(*   GraphSpec   AudioGraph: add_node, remove_node, connect, disconnect    *)
(*   SchedSpec   GraphScheduler::compute_order                             *)
(*   PoolSpec    BufferPool and PooledBuffer, used as lent                 *)
(*   PoolApiSpec BufferPool under every call its public API permits        *)
(*   Spec        one engine session: send_command and the audio callback   *)
(*   CommandSpec one engine session under every command type               *)
(*   SessionSpec the device session: start, stop, the stream's callbacks   *)
(*   BufferSpec  AudioBuffer (koto-core/src/types/audio.rs)                *)
(*   TimeSpec    MusicalTime to ticks and back (koto-core/src/types/time.rs)*)
(*   MidiSpec    MidiMessage::from_bytes (koto-core/src/types/midi.rs)     *)
(*   PollSpec    receive_events, pop by pop, beside the audio callback     *)
(*   MeterSpec   the MeterUpdate and PlayheadMoved events of the callback  *)
(*   RecordSpec  the callback while recording, try_lock free or contended  *)
(*   AppSpec     KotoApp::process_audio_events beside a running engine     *)
(*   UndoSpec    UndoHistory: execute, undo, redo, clear                   *)
(***************************************************************************)
EXTENDS Integers, Sequences, FiniteSets

VARIABLES
    \* ---- AudioGraph ----
    graph,          \* the AudioGraph: nodes, connections, next_id
    add_last,       \* the latest add_node: the id it returned, the nodes before
    issued,         \* the ids add_node has returned, in order
    \* ---- GraphScheduler ----
    connections,    \* the connection list handed to compute_order
    order,          \* what the latest compute_order call returned, or NoOrder
    prev_order,     \* what the call before it returned, or NoOrder
    warned,         \* the latest call logged "Audio graph contains a cycle!"
    runs,           \* number of compute_order calls made on `connections`
    \* ---- BufferPool / PooledBuffer ----
    pool,           \* the BufferPool: its free list, channel count, frame count
    pool_size,      \* num_buffers the pool was constructed with
    lent,           \* the buffers callers hold after acquire, oldest first
    guard,          \* the live PooledBuffer, or NoGuard
    pool_last,      \* the latest pool call: what it was and what it saw
    guard_log,      \* the latest PooledBuffer scope: available() before it,
                    \* how it ended, how many buffers it gave back
    \* ---- AudioEngine (control thread) and its channels ----
    cmdq,           \* the command ring buffer, oldest first
    evq,            \* the event ring buffer, oldest first
    send_last,      \* the latest send_command: the command and what it returned
    received,       \* what the latest receive_events returned
    \* ---- AudioCallback (audio thread) ----
    transport,      \* TransportState
    master_volume,  \* in percent: 100 is 1.0
    metronome_enabled,
    meter_frame_counter,
    recording_buffer,
    cb_pc,          \* "idle", "drain" (inside process_commands) or "panicked"
    output,         \* the output slice as the latest invocation left it
    audio_allocs,   \* heap allocations made inside AudioCallback::process
    \* ---- AudioEngine (device session) ----
    output_stream,  \* _output_stream: NoStream or the stream start() built
    is_running,
    session_last,   \* the latest start() or stop(): what it was, how it ended
    stream_error,   \* "none"; "fired": the stream's error callback ran;
                    \* then, at the next receive_events, "surfaced" if it
                    \* returned a DeviceError and "missed" if it did not
    starts,         \* number of start() calls
    \* ---- history ----
    accepted,       \* the commands send_command accepted, in order
    applied,        \* the commands process_commands applied, in order
    at_begin,       \* the command channel's content when process began
    done_at_begin,  \* Len(applied) when process began
    rendered,       \* what the latest invocation did after the drain
    sends,          \* number of send_command calls
    callbacks,      \* number of AudioCallback::process calls
    \* ---- the event channel as the control thread and a listener see it ----
    rx,             \* the receive_events call: where it stands in its loop,
                    \* the Vec it is filling, the channel when it was called
    moved_gap,      \* frames processed since the latest PlayheadMoved
                    \* entered the event channel (-1 before the first)
    \* ---- koto-core value types ----
    audio_buffer,   \* the AudioBuffer under the calls, or NoBuffer
    buffer_calls,   \* number of calls made on `audio_buffer`
    core_call,      \* the latest call on a koto-core value: its input and,
                    \* once it has run, its result
    \* ---- KotoApp and UndoHistory ----
    app,            \* KotoApp's is_playing and is_recording
    undo_history,   \* the UndoHistory: undo_stack, redo_stack, max_size
    undo_last,      \* the latest call on the history, and what it returned
    executes        \* number of execute calls (the commands are numbered)

graphVars == <<graph, add_last, issued>>
coreVars == <<audio_buffer, buffer_calls, core_call>>
obsVars == <<rx, moved_gap>>
appVars == <<app>>
undoVars == <<undo_history, undo_last, executes>>
uiVars == <<appVars, undoVars>>
schedVars == <<connections, order, prev_order, warned, runs>>
poolVars == <<pool, pool_size, lent, guard, pool_last, guard_log>>

chanVars == <<cmdq, evq, send_last, received>>
cbVars == <<transport, master_volume, metronome_enabled, meter_frame_counter,
            recording_buffer, cb_pc, output, audio_allocs>>
sessVars == <<output_stream, is_running, session_last, stream_error, starts>>
histVars == <<accepted, applied, at_begin, done_at_begin, rendered, sends, callbacks>>
engineVars == <<chanVars, cbVars, histVars, sessVars>>

vars == <<graphVars, schedVars, poolVars, engineVars, coreVars, obsVars, uiVars>>

Min(a, b) == IF a < b THEN a ELSE b
Max(a, b) == IF a > b THEN a ELSE b

(***************************************************************************)
(* GraphScheduler::compute_order                                           *)
(***************************************************************************)

\* Largest node id used in a connection list of the model (ids are 0..MaxNodeId).
MaxNodeId == 2
\* Longest connection list of the model.
MaxConns == 3
\* compute_order is called up to this many times on the same connection list.
MaxRuns == 2

NodeIds == 0..MaxNodeId
Edges == NodeIds \X NodeIds
ConnLists == UNION {[1..n -> Edges] : n \in 0..MaxConns}

NoOrder == [kind |-> "None"]

\* all_nodes: every id that is a source or a target of a connection.
AllNodes(conns) ==
    {conns[i][1] : i \in DOMAIN conns} \cup {conns[i][2] : i \in DOMAIN conns}

\* in_degree after the two building loops: one count per incoming connection
\* (duplicates counted), 0 for a node that is only ever a source.
InDegree(conns) ==
    [n \in AllNodes(conns) |-> Cardinality({i \in DOMAIN conns : conns[i][2] = n})]

RECURSIVE AdjList(_, _)
\* adj_list[node]: the targets of node's connections, in connection order,
\* duplicates kept; <<>> for a node with no entry.
AdjList(conns, node) ==
    IF conns = <<>> THEN <<>>
    ELSE IF Head(conns)[1] = node
         THEN <<Head(conns)[2]>> \o AdjList(Tail(conns), node)
         ELSE AdjList(Tail(conns), node)

\* The orders in which iterating a HashMap may visit the keys in S: the
\* standard library seeds each HashMap's hasher at random, so every
\* permutation is possible and it may differ from one call to the next.
IterationOrders(S) ==
    {p \in [1..Cardinality(S) -> S] : \A i, j \in DOMAIN p : i # j => p[i] # p[j]}

\* A faulty variant of ZeroDegreeNodes: the seed loop queues every node.
AnyDegreeNodes(conns) == AllNodes(conns)

\* The seed loop queues the zero-in-degree nodes (in the order the iteration
\* over in_degree meets them).
ZeroDegreeNodes(conns) == {n \in AllNodes(conns) : InDegree(conns)[n] = 0}

RECURSIVE VisitNeighborsEarly(_, _, _)
\* A faulty variant of VisitNeighbors: a neighbour is queued already when one
\* incoming connection is still unvisited.
VisitNeighborsEarly(neighbors, degree, queue) ==
    IF neighbors = <<>> THEN [degree |-> degree, queue |-> queue]
    ELSE LET n == Head(neighbors)
             d == degree[n] - 1
         IN  VisitNeighborsEarly(Tail(neighbors),
                                 [degree EXCEPT ![n] = d],
                                 IF d = 0 \/ d = 1 THEN Append(queue, n) ELSE queue)

RECURSIVE VisitNeighbors(_, _, _)
\* The inner for loop: decrement each neighbour's in-degree, queue it at zero.
VisitNeighbors(neighbors, degree, queue) ==
    IF neighbors = <<>> THEN [degree |-> degree, queue |-> queue]
    ELSE LET n == Head(neighbors)
             d == degree[n] - 1
         IN  VisitNeighbors(Tail(neighbors),
                            [degree EXCEPT ![n] = d],
                            IF d = 0 THEN Append(queue, n) ELSE queue)

RECURSIVE KahnLoop(_, _, _, _)
\* The while loop: pop the front of the queue, append it to the result, visit
\* its neighbours.
KahnLoop(conns, queue, degree, result) ==
    IF queue = <<>> THEN result
    ELSE LET node == Head(queue)
             v == VisitNeighbors(AdjList(conns, node), degree, Tail(queue))
         IN  KahnLoop(conns, v.queue, v.degree, Append(result, node))

\* compute_order(_graph, connections) when the seed loop meets the
\* zero-in-degree nodes in the order `seeds`.  The return type is Vec<NodeId>:
\* the only kind of outcome is an order; a cycle is logged, not returned.
compute_order(conns, seeds) ==
    LET result == KahnLoop(conns, seeds, InDegree(conns), <<>>)
    IN  [kind   |-> "Order",
         nodes  |-> result,
         warned |-> Len(result) # Cardinality(AllNodes(conns))]

SchedIdle ==
    /\ connections = <<>>
    /\ order = NoOrder
    /\ prev_order = NoOrder
    /\ warned = FALSE
    /\ runs = 0

SchedInit ==
    /\ connections \in ConnLists
    /\ order = NoOrder
    /\ prev_order = NoOrder
    /\ warned = FALSE
    /\ runs = 0

\* One call of GraphScheduler::compute_order on the connection list.
ComputeOrder ==
    /\ runs < MaxRuns
    /\ \E seeds \in IterationOrders(ZeroDegreeNodes(connections)) :
          LET r == compute_order(connections, seeds)
          IN  /\ order' = [kind |-> r.kind, nodes |-> r.nodes]
              /\ warned' = r.warned
    /\ prev_order' = order
    /\ runs' = runs + 1
    /\ UNCHANGED connections

(***************************************************************************)
(* AudioGraph                                                              *)
(***************************************************************************)

\* add_node is called up to this many times.
MaxAdds == 3
\* Longest connection list of an AudioGraph in the model.
MaxGraphConns == 1

\* The ids handed to remove_node, connect and disconnect: every id add_node
\* can have returned, and one it has not.
GraphIds == 0..MaxAdds

\* Connection; the model has one port per node side.
GraphConnections ==
    [source : GraphIds, source_port : {0}, target : GraphIds, target_port : {0}]

\* AudioGraph::new.  `nodes` holds the keys of the node map.
AudioGraphNew == [nodes |-> {}, connections |-> <<>>, next_id |-> 0]

\* A faulty variant of add_node: the smallest id not in the map is used.
add_node_reusing(g) ==
    LET id == CHOOSE n \in 0..Cardinality(g.nodes) :
                  n \notin g.nodes /\ \A m \in 0..(n - 1) : m \in g.nodes
    IN  [graph |-> [g EXCEPT !.nodes = @ \cup {id}, !.next_id = @ + 1],
         id    |-> id]

\* AudioGraph::add_node: the node goes in under next_id, next_id goes up by
\* one, the id used is returned.
add_node(g) ==
    [graph |-> [g EXCEPT !.nodes = @ \cup {g.next_id}, !.next_id = @ + 1],
     id    |-> g.next_id]

\* AudioGraph::remove_node: the node leaves the map (nothing happens for an
\* unknown id) and every connection touching the id is dropped.
remove_node(g, id) ==
    [g EXCEPT !.nodes = @ \ {id},
              !.connections =
                  SelectSeq(@, LAMBDA c : c.source # id /\ c.target # id)]

\* AudioGraph::connect: the connection is pushed, unexamined.
connect(g, connection) == [g EXCEPT !.connections = Append(@, connection)]

\* AudioGraph::disconnect: every connection from source to target is dropped.
disconnect(g, source, target) ==
    [g EXCEPT !.connections =
                  SelectSeq(@, LAMBDA c : c.source # source \/ c.target # target)]

NoAdd == [id |-> -1, before |-> {}]

GraphIdle ==
    /\ graph = AudioGraphNew
    /\ add_last = NoAdd
    /\ issued = <<>>

AddNode ==
    /\ graph.next_id < MaxAdds
    /\ LET r == add_node(graph)
       IN  /\ graph' = r.graph
           /\ add_last' = [id |-> r.id, before |-> graph.nodes]
           /\ issued' = Append(issued, r.id)

RemoveNode ==
    /\ \E id \in GraphIds : graph' = remove_node(graph, id)
    /\ UNCHANGED <<add_last, issued>>

Connect ==
    /\ Len(graph.connections) < MaxGraphConns
    /\ \E connection \in GraphConnections : graph' = connect(graph, connection)
    /\ UNCHANGED <<add_last, issued>>

Disconnect ==
    /\ \E source \in GraphIds, target \in GraphIds :
          graph' = disconnect(graph, source, target)
    /\ UNCHANGED <<add_last, issued>>

(***************************************************************************)
(* BufferPool and PooledBuffer                                             *)
(***************************************************************************)

\* Largest num_buffers a pool of the model is constructed with.
MaxBuffers == 2
\* Largest frame count of a buffer of the model.
MaxFrames == 2
\* Callers hand the pool up to this many buffers it did not lend.
MaxExtra == 1

\* ChannelCount::MONO and ChannelCount::STEREO.
ChannelCounts == {1, 2}
FrameCounts == 1..MaxFrames

NoGuard == [kind |-> "None"]
NoCall == [op |-> "none"]
NoScope == [state |-> "none"]

\* AudioBuffer::new: channels * frames samples, all 0.0.  `silent` stands for
\* the sample store holding only zeros.
AudioBufferNew(channels, frames) ==
    [channels |-> channels, frames |-> frames, len |-> channels * frames,
     silent |-> TRUE]

\* AudioBuffer::clear: every sample becomes 0.0; the shape is untouched.
AudioBufferClear(buffer) == [buffer EXCEPT !.silent = TRUE]

\* Writing a non-zero sample through samples_mut()/set().
AudioBufferWrite(buffer) ==
    [buffer EXCEPT !.silent = (buffer.len = 0)]

\* Every AudioBuffer value a caller can build with AudioBuffer::new and write to.
AnyBuffers ==
    {[channels |-> c, frames |-> f, len |-> c * f, silent |-> s] :
        c \in ChannelCounts, f \in FrameCounts, s \in BOOLEAN}

\* BufferPool::new(num_buffers, channels, frames).
BufferPoolNew(num_buffers, channels, frames) ==
    [buffers  |-> [i \in 1..num_buffers |-> AudioBufferNew(channels, frames)],
     channels |-> channels,
     frames   |-> frames]

\* BufferPool::available.
available(p) == Len(p.buffers)

\* BufferPool::acquire: pop_front of the free list; None when it is empty.
acquire(p) ==
    IF p.buffers = <<>>
    THEN [pool |-> p, result |-> [kind |-> "None"]]
    ELSE [pool   |-> [p EXCEPT !.buffers = Tail(p.buffers)],
          result |-> [kind |-> "Some", buffer |-> Head(p.buffers)]]

\* A faulty variant of release: the buffer is dropped instead of being put back.
releaseDropsBuffer(p, buffer) == p

\* BufferPool::release: clear the buffer, push_back on the free list.
release(p, buffer) ==
    [p EXCEPT !.buffers = Append(p.buffers, AudioBufferClear(buffer))]

\* PooledBuffer::new: acquire()?, then the guard that borrows the pool.
PooledBufferNew(p) ==
    LET a == acquire(p)
    IN  IF a.result.kind = "None"
        THEN [pool |-> p, result |-> NoGuard]
        ELSE [pool |-> a.pool,
              result |-> [kind |-> "Some", buffer |-> a.result]]

\* A faulty variant of PooledBufferDrop: the guard forgets its buffer.
PooledBufferDropLeaks(p, g) == [pool |-> p, returned |-> 0]

\* Drop for PooledBuffer: take() the buffer and release it when there is one.
\* `returned` counts the release calls the drop made.
PooledBufferDrop(p, g) ==
    IF g.buffer.kind = "Some"
    THEN [pool |-> release(p, g.buffer.buffer), returned |-> 1]
    ELSE [pool |-> p, returned |-> 0]

\* The ways a scope holding a PooledBuffer ends; each of them runs the drop.
ExitPaths == {"return", "early_return", "unwind"}

PoolIdle ==
    /\ pool = BufferPoolNew(0, 2, 1)
    /\ pool_size = 0
    /\ lent = <<>>
    /\ guard = NoGuard
    /\ pool_last = NoCall
    /\ guard_log = NoScope

PoolInit ==
    /\ \E n \in 0..MaxBuffers, c \in ChannelCounts, f \in FrameCounts :
          /\ pool = BufferPoolNew(n, c, f)
          /\ pool_size = n
    /\ lent = <<>>
    /\ guard = NoGuard
    /\ pool_last = NoCall
    /\ guard_log = NoScope

\* While a PooledBuffer lives it holds the pool's only (&mut) borrow, so no
\* other call reaches the pool.
PoolFree == guard = NoGuard

\* pool.acquire() by a caller that keeps the buffer.
Acquire ==
    /\ PoolFree
    /\ LET a == acquire(pool)
       IN  /\ pool' = a.pool
           /\ lent' = IF a.result.kind = "Some"
                      THEN Append(lent, a.result.buffer) ELSE lent
           /\ pool_last' = [op |-> "acquire", before |-> pool, after |-> a.pool,
                            holds_before |-> Len(lent), holds_after |-> Len(lent'),
                            result |-> a.result]
    /\ UNCHANGED <<pool_size, guard, guard_log>>

\* A caller writes samples into a buffer it holds.
WriteLent ==
    /\ \E i \in DOMAIN lent :
          /\ lent[i].silent
          /\ lent' = [lent EXCEPT ![i] = AudioBufferWrite(lent[i])]
    /\ UNCHANGED <<pool, pool_size, guard, pool_last, guard_log>>

RemoveAt(seq, i) == SubSeq(seq, 1, i - 1) \o SubSeq(seq, i + 1, Len(seq))

\* pool.release(buffer) of a buffer obtained from this pool: release takes the
\* buffer by value, so the caller no longer holds it.
Release ==
    /\ PoolFree
    /\ \E i \in DOMAIN lent :
          /\ pool' = release(pool, lent[i])
          /\ lent' = RemoveAt(lent, i)
          /\ pool_last' = [op |-> "release", before |-> pool, after |-> pool',
                           holds_before |-> Len(lent), holds_after |-> Len(lent'),
                           buffer |-> lent[i]]
    /\ UNCHANGED <<pool_size, guard, guard_log>>

\* pool.release(buffer) of any AudioBuffer value: the signature asks for no
\* more than an AudioBuffer.
ReleaseAny ==
    /\ PoolFree
    /\ available(pool) + Len(lent) < pool_size + MaxExtra
    /\ \E b \in AnyBuffers :
          /\ pool' = release(pool, b)
          /\ pool_last' = [op |-> "release", before |-> pool, after |-> pool',
                           holds_before |-> Len(lent), holds_after |-> Len(lent),
                           buffer |-> b]
    /\ UNCHANGED <<pool_size, lent, guard, guard_log>>

\* PooledBuffer::new(&mut pool) at the start of a scope.
GuardNew ==
    /\ PoolFree
    /\ LET g == PooledBufferNew(pool)
       IN  /\ pool' = g.pool
           /\ guard' = g.result
           /\ guard_log' = [state    |-> IF g.result = NoGuard
                                         THEN "refused" ELSE "open",
                            before   |-> pool,
                            after    |-> g.pool,
                            returned |-> 0]
    /\ UNCHANGED <<pool_size, lent, pool_last>>

\* The scope writes into the buffer through buffer_mut().
GuardWrite ==
    /\ guard # NoGuard
    /\ guard.buffer.buffer.silent
    /\ guard' = [guard EXCEPT !.buffer.buffer = AudioBufferWrite(@)]
    /\ UNCHANGED <<pool, pool_size, lent, pool_last, guard_log>>

\* The scope ends on one of its exit paths and the guard is dropped.
GuardDrop ==
    /\ guard # NoGuard
    /\ \E path \in ExitPaths :
          LET d == PooledBufferDrop(pool, guard)
          IN  /\ pool' = d.pool
              /\ guard_log' = [guard_log EXCEPT
                                  !.state = path,
                                  !.after = d.pool,
                                  !.returned = guard_log.returned + d.returned]
    /\ guard' = NoGuard
    /\ UNCHANGED <<pool_size, lent, pool_last>>

(***************************************************************************)
(* AudioEngine, the command and event channels, AudioCallback              *)
(***************************************************************************)

\* Capacity of the command ring buffer in the model; COMMAND_BUFFER_SIZE (256)
\* in the source.
CommandCapacity == 2
\* Capacity of the event ring buffer in the model; EVENT_BUFFER_SIZE (1024) in
\* the source.
EventCapacity == 3
\* send_command is called up to this many times.
MaxSends == 3
\* AudioCallback::process is called up to this many times.
MaxCallbacks == 2
\* Longest output slice the device hands to the callback.
MaxOutputLen == 4
\* The largest SamplePosition of the model; i64::MAX in the source.
I64Max == 7
\* The sample rate the session negotiated, in the model.
SampleRateHz == 4
\* buffer_size handed to AudioCallback::new, in the model; 512 in the source.
BufferSizeFrames == 2

I64Min == -I64Max - 1

\* The output lengths of the model: no frame, a frame and a dangling sample,
\* whole frames.
OutputLens == {0, MaxOutputLen - 1, MaxOutputLen}

\* f32::NAN, among volumes in percent.
NaN == -1000

\* Payloads of the model; the command types admit any i64, f64, u8 and f32.
SeekPositions == {0, I64Max}
Tempos == {240}
Numerators == {0, 3}
Volumes == {50, 150}

\* AudioCommand.
Commands ==
    {[type |-> "Play"], [type |-> "Stop"], [type |-> "StartRecording"],
     [type |-> "StopRecording"]}
    \cup {[type |-> "Seek", position |-> p] : p \in SeekPositions}
    \cup {[type |-> "SetTempo", tempo |-> t] : t \in Tempos}
    \cup {[type |-> "SetTimeSignature",
           time_sig |-> [numerator |-> n, denominator |-> 4]] : n \in Numerators}
    \cup {[type |-> "SetMasterVolume", volume |-> v] : v \in Volumes}
    \cup {[type |-> "SetMetronomeEnabled", enabled |-> b] : b \in BOOLEAN}

\* TransportState::new: Tempo::DEFAULT, TimeSignature::COMMON_TIME, the rest
\* Default (loop_* are never touched after construction).
TransportStateNew ==
    [is_playing |-> FALSE, is_recording |-> FALSE, playhead |-> 0,
     tempo |-> 120, time_signature |-> [numerator |-> 4, denominator |-> 4],
     loop_enabled |-> FALSE, loop_start |-> 0, loop_end |-> 0]

\* meter_update_interval as AudioCallback::new computes it.
meter_update_interval == Max(SampleRateHz \div 30, BufferSizeFrames)

\* ---- the ring buffers (rtrb) ----

\* A faulty variant of Push: the value is written even when the buffer is full, over
\* the oldest one.
PushOverwrites(q, x, capacity) ==
    IF Len(q) >= capacity
    THEN [queue |-> Append(Tail(q), x), ok |-> TRUE]
    ELSE [queue |-> Append(q, x), ok |-> TRUE]

\* A faulty variant of Push: a full buffer takes the value all the same.
PushUnbounded(q, x, capacity) == [queue |-> Append(q, x), ok |-> TRUE]

\* Producer::push: Err(Full) and no change when the buffer holds `capacity`
\* values, else the value goes to the back.
Push(q, x, capacity) ==
    IF Len(q) >= capacity
    THEN [queue |-> q, ok |-> FALSE]
    ELSE [queue |-> Append(q, x), ok |-> TRUE]

\* A faulty variant of Pop: the newest value is taken instead of the oldest.
PopNewest(q) == [queue |-> SubSeq(q, 1, Len(q) - 1), value |-> q[Len(q)]]

\* Consumer::pop on a non-empty buffer: the oldest value leaves.
Pop(q) == [queue |-> Tail(q), value |-> Head(q)]

\* ---- AudioCallback ----

\* f32::clamp(0.0, 1.0), in percent: below 0 gives 0, above 1 gives 1, and
\* NaN, which compares neither below nor above, comes back as NaN.
ClampVolume(v) == IF v = NaN THEN NaN ELSE Max(0, Min(100, v))

\* The capacity StartRecording gives the recording Vec: one minute of stereo.
RecordingCapacity == SampleRateHz * 60 * 2

\* A faulty variant of send_transport_state: nothing is pushed.
SendNothing(events, t) == events

\* send_transport_state: push a TransportStateChanged; a full channel drops it.
send_transport_state(events, t) ==
    Push(events,
         [type |-> "TransportStateChanged",
          is_playing |-> t.is_playing, is_recording |-> t.is_recording],
         EventCapacity).queue

\* A faulty variant of ApplyCommand: StopRecording leaves the recording
\* buffer in place.
ApplyCommandKeepingBuffer(command, t, vol, metro, rec, events) ==
    LET same == [transport |-> t, master_volume |-> vol,
                 metronome_enabled |-> metro, recording_buffer |-> rec,
                 evq |-> events, allocs |-> 0]
    IN  CASE command.type = "Play" ->
               LET t2 == [t EXCEPT !.is_playing = TRUE]
               IN  [same EXCEPT !.transport = t2,
                                !.evq = send_transport_state(events, t2)]
          [] command.type = "Stop" ->
               LET t2 == [t EXCEPT !.is_playing = FALSE]
               IN  [same EXCEPT !.transport = t2,
                                !.evq = send_transport_state(events, t2)]
          [] command.type = "Seek" ->
               [same EXCEPT !.transport = [t EXCEPT !.playhead = command.position]]
          [] command.type = "SetTempo" ->
               [same EXCEPT !.transport = [t EXCEPT !.tempo = command.tempo]]
          [] command.type = "SetTimeSignature" ->
               [same EXCEPT !.transport =
                               [t EXCEPT !.time_signature = command.time_sig]]
          [] command.type = "StartRecording" ->
               LET t2 == [t EXCEPT !.is_recording = TRUE]
               IN  [same EXCEPT !.transport = t2,
                                !.recording_buffer =
                                    [kind |-> "Some", len |-> 0,
                                     capacity |-> RecordingCapacity],
                                !.allocs = 2,
                                !.evq = send_transport_state(events, t2)]
          [] command.type = "StopRecording" ->
               LET t2 == [t EXCEPT !.is_recording = FALSE]
               IN  [same EXCEPT !.transport = t2,
                                !.evq = send_transport_state(events, t2)]
          [] command.type = "SetMasterVolume" ->
               [same EXCEPT !.master_volume = ClampVolume(command.volume)]
          [] command.type = "SetMetronomeEnabled" ->
               [same EXCEPT !.metronome_enabled = command.enabled]

\* One arm of the match in process_commands: the callback's fields and the
\* event channel after `command`, and the heap allocations the arm made
\* (StartRecording: Vec::with_capacity and Arc::new).
ApplyCommand(command, t, vol, metro, rec, events) ==
    LET same == [transport |-> t, master_volume |-> vol,
                 metronome_enabled |-> metro, recording_buffer |-> rec,
                 evq |-> events, allocs |-> 0]
    IN  CASE command.type = "Play" ->
               LET t2 == [t EXCEPT !.is_playing = TRUE]
               IN  [same EXCEPT !.transport = t2,
                                !.evq = send_transport_state(events, t2)]
          [] command.type = "Stop" ->
               LET t2 == [t EXCEPT !.is_playing = FALSE]
               IN  [same EXCEPT !.transport = t2,
                                !.evq = send_transport_state(events, t2)]
          [] command.type = "Seek" ->
               [same EXCEPT !.transport = [t EXCEPT !.playhead = command.position]]
          [] command.type = "SetTempo" ->
               [same EXCEPT !.transport = [t EXCEPT !.tempo = command.tempo]]
          [] command.type = "SetTimeSignature" ->
               [same EXCEPT !.transport =
                               [t EXCEPT !.time_signature = command.time_sig]]
          [] command.type = "StartRecording" ->
               LET t2 == [t EXCEPT !.is_recording = TRUE]
               IN  [same EXCEPT !.transport = t2,
                                !.recording_buffer =
                                    [kind |-> "Some", len |-> 0,
                                     capacity |-> RecordingCapacity],
                                !.allocs = 2,
                                !.evq = send_transport_state(events, t2)]
          [] command.type = "StopRecording" ->
               LET t2 == [t EXCEPT !.is_recording = FALSE]
               IN  [same EXCEPT !.transport = t2,
                                !.recording_buffer = [kind |-> "None"],
                                !.evq = send_transport_state(events, t2)]
          [] command.type = "SetMasterVolume" ->
               [same EXCEPT !.master_volume = ClampVolume(command.volume)]
          [] command.type = "SetMetronomeEnabled" ->
               [same EXCEPT !.metronome_enabled = command.enabled]

\* A faulty variant of DrainFinished: the drain stops after one command.
DrainFinishedAfterOne == cmdq = <<>> \/ Len(applied) > done_at_begin

\* The while-let of process_commands ends when pop finds the channel empty.
DrainFinished == cmdq = <<>>

\* ---- the metronome and the rest of process ----

\* A sample of the output: a click of frequency `freq` evaluated at sample
\* position `pos`, scaled by `gain` percent.  Silence is 0.0; Stale is whatever
\* the slice held when the device handed it over.
Silence == [freq |-> 0, pos |-> 0, gain |-> 0]
Stale == [freq |-> -1, pos |-> 0, gain |-> 0]
NoInput == [kind |-> "None"]
NoRender == [kind |-> "None"]

\* Division rounding toward zero (`as i32` of a float quotient), for d > 0.
TruncDiv(n, d) == IF n >= 0 THEN n \div d ELSE -((-n) \div d)

\* Rust's % on i32, for d # 0: the remainder has the sign of the dividend.
RustRem(n, d) ==
    LET a == IF d > 0 THEN d ELSE -d
    IN  n - a * TruncDiv(n, a)

\* beat_pos = sample_pos / samples_per_beat with samples_per_beat =
\* sample_rate * 60 / tempo, kept as the exact fraction BeatNum / BeatDen.
BeatNum(sample_pos, tempo) == sample_pos * tempo
BeatDen == SampleRateHz * 60

\* beat_pos as i32.
BeatIndex(sample_pos, tempo) == TruncDiv(BeatNum(sample_pos, tempo), BeatDen)

\* beat_phase < 0.01, beat_phase being beat_pos.fract().
InClick(sample_pos, tempo) ==
    (BeatNum(sample_pos, tempo) - BeatIndex(sample_pos, tempo) * BeatDen) * 100 < BeatDen

\* click_freq; evaluated only for a non-zero numerator.
ClickFreq(sample_pos, t) ==
    IF RustRem(BeatIndex(sample_pos, t.tempo), t.time_signature.numerator) = 0
    THEN 880 ELSE 440

\* generate_metronome on a cleared output: `panic` when a frame inside a click
\* takes the remainder by a zero numerator, else the output with the clicks
\* added to both samples of their frames.
generate_metronome(out, frames, t) ==
    LET clicks == {f \in 0..(frames - 1) : InClick(t.playhead + f, t.tempo)}
    IN  IF clicks # {} /\ t.time_signature.numerator = 0
        THEN [panic |-> TRUE, output |-> out]
        ELSE [panic  |-> FALSE,
              output |-> [i \in DOMAIN out |->
                            LET f == (i - 1) \div 2
                            IN  IF f \in clicks
                                THEN [freq |-> ClickFreq(t.playhead + f, t),
                                      pos  |-> t.playhead + f,
                                      gain |-> 100]
                                ELSE out[i]]]

\* SamplePosition::advance: self.0 += frames as i64.  Past i64::MAX the
\* addition panics where overflow checks are compiled in and wraps where they
\* are not.
advance(position, frames) ==
    IF position + frames <= I64Max
    THEN {[panic |-> FALSE, position |-> position + frames]}
    ELSE {[panic |-> TRUE, position |-> position],
          [panic |-> FALSE, position |-> I64Min + (position + frames - I64Max - 1)]}

\* A sample that is NaN.
NotANumber == [freq |-> 0, pos |-> 0, gain |-> NaN]

\* The master-volume loop: every sample times master_volume (anything times
\* NaN is NaN).
ApplyMasterVolume(out, vol) ==
    [i \in DOMAIN out |->
        IF vol = NaN THEN NotANumber
        ELSE IF out[i].freq = 0 THEN Silence
        ELSE [out[i] EXCEPT !.gain = (out[i].gain * vol) \div 100]]

\* The MeterUpdate send_meter_update builds from the output slice it is given:
\* peaks and RMS over its frames (here: how many frames, and which of them
\* carry signal on the left and on the right).
MeterUpdate(out) ==
    [type   |-> "MeterUpdate",
     frames |-> Len(out) \div 2,
     left   |-> {f \in 0..(Len(out) \div 2 - 1) : out[f * 2 + 1] # Silence},
     right  |-> {f \in 0..(Len(out) \div 2 - 1) : out[f * 2 + 2] # Silence}]

\* No stream is held.
NoStream == [kind |-> "None"]

\* Two fresh channels, and the fields AudioCallback::new sets.
FreshCallback ==
    /\ cmdq = <<>>
    /\ evq = <<>>
    /\ send_last = NoCall
    /\ received = <<>>
    /\ transport = TransportStateNew
    /\ master_volume = 100
    /\ metronome_enabled = FALSE
    /\ meter_frame_counter = 0
    /\ recording_buffer = [kind |-> "None"]
    /\ cb_pc = "idle"
    /\ output = <<>>
    /\ audio_allocs = 0
    /\ accepted = <<>>
    /\ applied = <<>>
    /\ at_begin = <<>>
    /\ done_at_begin = 0
    /\ rendered = NoRender
    /\ sends = 0
    /\ callbacks = 0

\* The engine as AudioEngine::new leaves it: no stream, not running.
EngineIdle ==
    /\ FreshCallback
    /\ output_stream = NoStream
    /\ is_running = FALSE
    /\ session_last = NoCall
    /\ stream_error = "none"
    /\ starts = 0

\* A session as a successful AudioEngine::start leaves it: two fresh, empty
\* channels, the callback AudioCallback::new built, a stereo stream playing.
EngineInit ==
    /\ FreshCallback
    /\ output_stream = [kind |-> "Some", channels |-> 2]
    /\ is_running = TRUE
    /\ session_last = NoCall
    /\ stream_error = "none"
    /\ starts = 0

\* AudioEngine::send_command, on the control thread, with a command of `cmds`.
SendCommand(cmds) ==
    /\ sends < MaxSends
    /\ \E command \in cmds :
          LET r == Push(cmdq, command, CommandCapacity)
          IN  /\ cmdq' = r.queue
              /\ send_last' = [op |-> "send", command |-> command, ok |-> r.ok,
                               before |-> cmdq, after |-> r.queue]
              /\ accepted' = IF r.ok THEN Append(accepted, command) ELSE accepted
    /\ sends' = sends + 1
    /\ UNCHANGED <<evq, received, cbVars, applied, at_begin, done_at_begin,
                   rendered, callbacks, sessVars>>

\* AudioEngine::receive_events, on the control thread: pop until empty, as
\* one step (no callback pushes while the call runs; ReceiveBegin, ReceivePop
\* and ReceiveReturn follow the loop pop by pop).  A call that would return
\* nothing new and follows no stream error is left out.
ReceiveEvents ==
    /\ evq # <<>> \/ stream_error = "fired"
    /\ received' = evq
    /\ evq' = <<>>
    /\ stream_error' =
          IF stream_error # "fired" THEN stream_error
          ELSE IF \E i \in DOMAIN evq : evq[i].type = "DeviceError"
               THEN "surfaced" ELSE "missed"
    /\ UNCHANGED <<cmdq, send_last, cbVars, histVars, output_stream, is_running,
                   session_last, starts>>

\* receive_events followed pop by pop, the audio thread running beside it.

\* receive_events is called up to this many times.
MaxPolls == 2

\* No receive_events call is in progress.
RxIdle == [pc |-> "idle", events |-> <<>>, at_call |-> <<>>, calls |-> 0]

\* A faulty variant of receive_pop: the popped event is not pushed to the Vec.
receive_pop_dropping(r) == [events |-> r.events, queue |-> Pop(r.queue).queue]

\* One turn of `while let Ok(event) = self.event_rx.pop() { events.push(event) }`
\* on a non-empty channel.
receive_pop(r) ==
    [events |-> Append(r.events, Pop(r.queue).value), queue |-> Pop(r.queue).queue]

\* receive_events is entered: let mut events = Vec::new().
ReceiveBegin ==
    /\ rx.pc = "idle"
    /\ rx.calls < MaxPolls
    /\ rx' = [pc |-> "pop", events |-> <<>>, at_call |-> evq, calls |-> rx.calls + 1]
    /\ UNCHANGED <<chanVars, cbVars, histVars, sessVars>>

\* pop() returned Ok(event).
ReceivePop ==
    /\ rx.pc = "pop"
    /\ evq # <<>>
    /\ LET r == receive_pop([events |-> rx.events, queue |-> evq])
       IN  /\ rx' = [rx EXCEPT !.events = r.events]
           /\ evq' = r.queue
    /\ UNCHANGED <<cmdq, send_last, received, cbVars, histVars, sessVars>>

\* pop() returned Err: the loop ends and the Vec is returned.
ReceiveReturn ==
    /\ rx.pc = "pop"
    /\ evq = <<>>
    /\ received' = rx.events
    /\ rx' = [rx EXCEPT !.pc = "idle", !.events = <<>>]
    /\ UNCHANGED <<cmdq, evq, send_last, cbVars, histVars, sessVars>>

\* The events a step puts into the event channel.
Pushed == SubSeq(evq', Len(evq) + 1, Len(evq'))

\* The step puts an event of this type into the event channel.
Pushes(type) == \E i \in DOMAIN Pushed : Pushed[i].type = type

\* What a listener that counts the frames processed since the latest
\* PlayheadMoved holds after an invocation of process.
MovedGap ==
    moved_gap' =
        IF rendered'.kind # "Some" THEN moved_gap
        ELSE IF Pushes("PlayheadMoved") THEN 0
        ELSE IF moved_gap = -1 THEN -1
        ELSE Min(moved_gap + rendered'.frames, meter_update_interval)

ObsIdle ==
    /\ rx = RxIdle
    /\ moved_gap = -1

\* The device invokes the data callback of the stream the engine holds, and
\* with it AudioCallback::process(output, input); process enters
\* process_commands.  The two slices are first looked at after the drain, so
\* ProcessRender is where the model draws them.
ProcessBegin ==
    /\ output_stream # NoStream
    /\ cb_pc = "idle"
    /\ callbacks < MaxCallbacks
    /\ cb_pc' = "drain"
    /\ output' = <<>>
    /\ at_begin' = cmdq
    /\ done_at_begin' = Len(applied)
    /\ rendered' = NoRender
    /\ callbacks' = callbacks + 1
    /\ UNCHANGED <<chanVars, transport, master_volume, metronome_enabled,
                   meter_frame_counter, recording_buffer, audio_allocs, accepted,
                   applied, sends, sessVars>>

\* One turn of the while-let in process_commands: pop a command, apply it.
ProcessCommand ==
    /\ cb_pc = "drain"
    /\ ~DrainFinished
    /\ LET p == Pop(cmdq)
           a == ApplyCommand(p.value, transport, master_volume,
                             metronome_enabled, recording_buffer, evq)
       IN  /\ cmdq' = p.queue
           /\ transport' = a.transport
           /\ master_volume' = a.master_volume
           /\ metronome_enabled' = a.metronome_enabled
           /\ recording_buffer' = a.recording_buffer
           /\ evq' = a.evq
           /\ audio_allocs' = audio_allocs + a.allocs
           /\ applied' = Append(applied, p.value)
    /\ UNCHANGED <<send_last, received, meter_frame_counter, cb_pc, output,
                   accepted, at_begin, done_at_begin, rendered, sends, callbacks,
                   sessVars>>

\* The arguments of process: an output slice holding stale samples and an
\* optional input slice.
ProcessArgs ==
    UNION {{[output |-> [i \in 1..len |-> Stale], input |-> NoInput],
            [output |-> [i \in 1..len |-> Stale],
             input  |-> [kind |-> "Some", len |-> len]]} : len \in OutputLens}

\* What buffer.try_lock() returns: the guard, or None while another holder of
\* the Arc has the Mutex locked.  try_lock never waits.
TryLock == {"Some", "None"}

\* The fields of the callback that process reads and writes.
Callback ==
    [transport |-> transport, master_volume |-> master_volume,
     metronome_enabled |-> metronome_enabled,
     meter_frame_counter |-> meter_frame_counter,
     recording_buffer |-> recording_buffer, evq |-> evq,
     audio_allocs |-> audio_allocs]

\* A faulty variant of capture: the samples are appended whether or not
\* try_lock gave the guard.
capture_without_guard(cb, input, lock) ==
    IF cb.transport.is_recording /\ input.kind = "Some"
       /\ cb.recording_buffer.kind = "Some"
    THEN [buffer |-> [cb.recording_buffer EXCEPT !.len = @ + input.len],
          allocs |-> 0]
    ELSE [buffer |-> cb.recording_buffer, allocs |-> 0]

\* The capture step of process: when recording, with an input slice, a
\* recording buffer and the guard, guard.extend_from_slice(input_data), which
\* reallocates the Vec past its capacity; else nothing.
capture(cb, input, lock) ==
    LET rec  == cb.recording_buffer
        take == /\ cb.transport.is_recording
                /\ input.kind = "Some"
                /\ rec.kind = "Some"
                /\ lock = "Some"
        grow == take /\ rec.len + input.len > rec.capacity
    IN  IF take
        THEN [buffer |-> [rec EXCEPT
                            !.len = @ + input.len,
                            !.capacity = IF grow
                                         THEN Max(2 * @, rec.len + input.len)
                                         ELSE @],
              allocs |-> IF grow THEN 1 ELSE 0]
        ELSE [buffer |-> rec, allocs |-> 0]

\* process after process_commands has returned, on the callback fields `cb`:
\* clear, capture, metronome, advance, master volume, meter, playhead event.
\* The set of outcomes (advance has two past i64::MAX); an outcome that
\* panicked left the fields after the panic's place as they were.
process(cb, args, lock) ==
    LET t       == cb.transport
        frames  == Len(args.output) \div 2
        cleared == [i \in DOMAIN args.output |-> Silence]
        cap     == capture(cb, args.input, lock)
        m       == IF t.is_playing /\ cb.metronome_enabled
                   THEN generate_metronome(cleared, frames, t)
                   ELSE [panic |-> FALSE, output |-> cleared]
        advs    == IF t.is_playing
                   THEN advance(t.playhead, frames)
                   ELSE {[panic |-> FALSE, position |-> t.playhead]}
        out     == ApplyMasterVolume(m.output, cb.master_volume)
        counter == cb.meter_frame_counter + frames
        due     == counter >= meter_update_interval
        counter2 == IF due THEN 0 ELSE counter
        ev1     == IF due
                   THEN Push(cb.evq, MeterUpdate(out), EventCapacity).queue
                   ELSE cb.evq
        ev2(position) ==
                   IF t.is_playing /\ counter2 = 0
                   THEN Push(ev1, [type |-> "PlayheadMoved",
                                   position |-> position],
                             EventCapacity).queue
                   ELSE ev1
    IN  {IF m.panic \/ adv.panic
         THEN [panic |-> TRUE,
               cause |-> IF m.panic THEN "remainder by zero"
                                    ELSE "add with overflow",
               output |-> m.output,
               recording_buffer |-> cap.buffer,
               audio_allocs |-> cb.audio_allocs + cap.allocs,
               transport |-> t,
               meter_frame_counter |-> cb.meter_frame_counter,
               evq |-> cb.evq]
         ELSE [panic |-> FALSE,
               cause |-> "none",
               output |-> out,
               recording_buffer |-> cap.buffer,
               audio_allocs |-> cb.audio_allocs + cap.allocs,
               transport |-> [t EXCEPT !.playhead = adv.position],
               meter_frame_counter |-> counter2,
               evq |-> ev2(adv.position)] : adv \in advs}

\* process after process_commands has returned, as a step of the callback,
\* and what the step is remembered by.
Render(args) ==
    /\ \E lock \in TryLock : \E r \in process(Callback, args, lock) :
          /\ cb_pc' = IF r.panic THEN "panicked" ELSE "idle"
          /\ output' = r.output
          /\ recording_buffer' = r.recording_buffer
          /\ audio_allocs' = r.audio_allocs
          /\ transport' = r.transport
          /\ meter_frame_counter' = r.meter_frame_counter
          /\ evq' = r.evq
          /\ rendered' =
                IF r.panic
                THEN [kind  |-> "Panic",
                      cause |-> r.cause,
                      at_begin |-> at_begin,
                      drained  |-> SubSeq(applied, done_at_begin + 1, Len(applied)),
                      left     |-> cmdq]
                ELSE [kind    |-> "Some",
                      at_begin |-> at_begin,
                      drained |-> SubSeq(applied, done_at_begin + 1, Len(applied)),
                      left    |-> cmdq,
                      frames  |-> Len(args.output) \div 2,
                      len     |-> Len(args.output),
                      playing |-> transport.is_playing,
                      playhead_before |-> transport.playhead]
    /\ UNCHANGED <<cmdq, send_last, received, master_volume, metronome_enabled,
                   accepted, applied, at_begin, done_at_begin, sends, callbacks,
                   sessVars>>

ProcessRender ==
    /\ cb_pc = "drain"
    /\ DrainFinished
    /\ \E args \in ProcessArgs : Render(args)

\* The arguments the stream's data callback hands to process (engine.rs:
\* cb.process(data, None)): one period of the stream, a sample per channel
\* and frame, and no input.
DeviceArgs ==
    {[output |-> [i \in 1..(BufferSizeFrames * output_stream.channels) |-> Stale],
      input  |-> NoInput]}

\* process after process_commands has returned, invoked by the stream.
ProcessPeriod ==
    /\ cb_pc = "drain"
    /\ DrainFinished
    /\ \E args \in DeviceArgs : Render(args)

\* ---- AudioEngine::start and stop ----

\* start() is called up to this many times.
MaxStarts == 2

\* How a start() on a stopped engine ends: at one of its four `?`, or Ok.
StartOutcomes ==
    {"no output device", "no default config", "build stream failed",
     "play stream failed", "Ok"}

\* The channel counts default_output_config reports, in the model.
StreamChannels == {1, 2}

\* A faulty variant of StartResult: the stream is stored before play() is
\* tried.
StartResultHalfOpen(outcome, channels) ==
    IF outcome \in {"play stream failed", "Ok"}
    THEN [stream |-> [kind |-> "Some", channels |-> channels],
          running |-> outcome = "Ok"]
    ELSE [stream |-> NoStream, running |-> FALSE]

\* _output_stream and is_running as a start() past the channel swap leaves
\* them: both set after play() succeeded, both untouched (None, false) when
\* build_output_stream or play returned early.
StartResult(outcome, channels) ==
    IF outcome = "Ok"
    THEN [stream |-> [kind |-> "Some", channels |-> channels], running |-> TRUE]
    ELSE [stream |-> NoStream, running |-> FALSE]

\* AudioEngine::start.  A running engine returns Ok at once.  A stopped one
\* fails before touching anything when there is no device or no config;
\* past that it replaces both channels (what they held is gone) and builds a
\* new AudioCallback, then builds and plays the stream.
Start ==
    /\ starts < MaxStarts
    /\ starts' = starts + 1
    /\ IF is_running
       THEN /\ session_last' = [op |-> "start", result |-> "Ok",
                                was_running |-> TRUE, discarded |-> <<>>]
            /\ UNCHANGED <<chanVars, cbVars, histVars, output_stream, is_running,
                           stream_error>>
       ELSE \E outcome \in StartOutcomes, channels \in StreamChannels :
              IF outcome \in {"no output device", "no default config"}
              THEN /\ session_last' = [op |-> "start", result |-> outcome,
                                       was_running |-> FALSE, discarded |-> <<>>]
                   /\ UNCHANGED <<chanVars, cbVars, histVars, output_stream,
                                  is_running, stream_error>>
              ELSE LET r == StartResult(outcome, channels)
                   IN  /\ session_last' = [op |-> "start", result |-> outcome,
                                           was_running |-> FALSE,
                                           discarded |-> cmdq]
                       /\ output_stream' = r.stream
                       /\ is_running' = r.running
                       /\ cmdq' = <<>>
                       /\ evq' = <<>>
                       /\ transport' = TransportStateNew
                       /\ master_volume' = 100
                       /\ metronome_enabled' = FALSE
                       /\ meter_frame_counter' = 0
                       /\ recording_buffer' = [kind |-> "None"]
                       /\ cb_pc' = "idle"
                       /\ output' = <<>>
                       /\ accepted' = <<>>
                       /\ applied' = <<>>
                       /\ at_begin' = <<>>
                       /\ done_at_begin' = 0
                       /\ rendered' = NoRender
                       /\ UNCHANGED <<send_last, received, audio_allocs, sends,
                                      callbacks, stream_error>>

\* A faulty variant of StopResult: is_running is left as it was.
StopKeepsRunning(engine) == [engine EXCEPT !.stream = NoStream]

\* _output_stream and is_running as stop() leaves them.
StopResult(engine) == [stream |-> NoStream, running |-> FALSE]

\* AudioEngine::stop (Drop for AudioEngine calls it too).  Dropping the
\* Stream ends the callbacks and waits for one in flight, so stop returns
\* with the callback idle; the AudioCallback and its ends of the channels go
\* with the stream.
Stop ==
    /\ cb_pc # "drain"
    /\ LET before == [stream |-> output_stream, running |-> is_running]
           after  == StopResult(before)
       IN  /\ output_stream' = after.stream
           /\ is_running' = after.running
           /\ session_last' = [op |-> "stop", before |-> before, after |-> after]
    /\ UNCHANGED <<chanVars, cbVars, histVars, stream_error, starts>>

\* The error callback handed to build_output_stream: it logs, nothing else.
StreamError ==
    /\ output_stream # NoStream
    /\ stream_error = "none"
    /\ stream_error' = "fired"
    /\ UNCHANGED <<chanVars, cbVars, histVars, output_stream, is_running,
                   session_last, starts>>

(***************************************************************************)
(* koto-core value types: AudioBuffer, MusicalTime, MidiMessage            *)
(***************************************************************************)

\* A call whose input is drawn and whose result is not computed yet.
Pending == [kind |-> "pending"]

\* ---- AudioBuffer (types/audio.rs), with its sample store ----

MaxSamples == 3        \* longest sample vector handed to from_samples
MaxBufferCalls == 3    \* calls made on the buffer
MaxGain == 2           \* largest gain handed to apply_gain

SampleValues == {0, 1}
Gains == {0, MaxGain}
\* ChannelCount(pub u16): MONO, STEREO, and 0, which the public field admits.
BufferChannels == {0, 1, 2}
BufferFrames == 0..MaxFrames
SampleVectors == UNION {[1..n -> SampleValues] : n \in 0..MaxSamples}

NoBuffer == [kind |-> "None"]

\* AudioBuffer::new: vec![0.0; channels * frames].
buffer_new(channels, frames) ==
    [samples  |-> [i \in 1..(channels * frames) |-> 0],
     channels |-> channels,
     frames   |-> frames]

\* AudioBuffer::from_samples: frames = samples.len() / channels, an integer
\* division that panics for ChannelCount(0); the vector is stored as given.
\* The function returns Self: there is no error value.
from_samples(samples, channels) ==
    IF channels = 0
    THEN [kind |-> "panic"]
    ELSE [kind   |-> "Ok",
          buffer |-> [samples  |-> samples,
                      channels |-> channels,
                      frames   |-> Len(samples) \div channels]]

\* AudioBuffer::set: writes only inside frames x channels.
set(b, frame, channel, value) ==
    IF frame < b.frames /\ channel < b.channels
    THEN [b EXCEPT !.samples[frame * b.channels + channel + 1] = value]
    ELSE b

\* AudioBuffer::clear: samples.fill(0.0).
clear(b) == [b EXCEPT !.samples = [i \in DOMAIN b.samples |-> 0]]

\* AudioBuffer::copy_from: the common prefix of the two stores is overwritten.
copy_from(b, other) ==
    LET len == Min(Len(b.samples), Len(other.samples))
    IN  [b EXCEPT !.samples = [i \in DOMAIN b.samples |->
                                 IF i <= len THEN other.samples[i] ELSE b.samples[i]]]

\* AudioBuffer::apply_gain: every sample times gain.
apply_gain(b, gain) ==
    [b EXCEPT !.samples = [i \in DOMAIN b.samples |-> b.samples[i] * gain]]

\* AudioBuffer::mix: the other store is added over the common prefix.
mix(b, other) ==
    LET len == Min(Len(b.samples), Len(other.samples))
    IN  [b EXCEPT !.samples = [i \in DOMAIN b.samples |->
                                 IF i <= len THEN b.samples[i] + other.samples[i]
                                 ELSE b.samples[i]]]

\* The buffers handed to copy_from and mix as `other`.
OtherBuffers == {from_samples(s, 1).buffer : s \in SampleVectors}

BufferNew ==
    /\ buffer_calls < MaxBufferCalls
    /\ \E channels \in BufferChannels, frames \in BufferFrames :
         /\ audio_buffer' = buffer_new(channels, frames)
         /\ core_call' = [op |-> "new", channels |-> channels, frames |-> frames]
    /\ buffer_calls' = buffer_calls + 1

FromSamples ==
    /\ buffer_calls < MaxBufferCalls
    /\ \E samples \in SampleVectors, channels \in BufferChannels :
         LET r == from_samples(samples, channels)
         IN  /\ audio_buffer' = IF r.kind = "Ok" THEN r.buffer ELSE audio_buffer
             /\ core_call' = [op       |-> "from_samples",
                              samples  |-> samples,
                              channels |-> channels,
                              result   |-> r]
    /\ buffer_calls' = buffer_calls + 1

BufferSet ==
    /\ audio_buffer # NoBuffer
    /\ buffer_calls < MaxBufferCalls
    /\ \E frame \in BufferFrames, channel \in BufferChannels, value \in SampleValues :
         /\ audio_buffer' = set(audio_buffer, frame, channel, value)
         /\ core_call' = [op |-> "set", frame |-> frame, channel |-> channel,
                          value |-> value]
    /\ buffer_calls' = buffer_calls + 1

BufferClear ==
    /\ audio_buffer # NoBuffer
    /\ buffer_calls < MaxBufferCalls
    /\ audio_buffer' = clear(audio_buffer)
    /\ core_call' = [op |-> "clear"]
    /\ buffer_calls' = buffer_calls + 1

BufferCopyFrom ==
    /\ audio_buffer # NoBuffer
    /\ buffer_calls < MaxBufferCalls
    /\ \E other \in OtherBuffers :
         /\ audio_buffer' = copy_from(audio_buffer, other)
         /\ core_call' = [op |-> "copy_from", other |-> other]
    /\ buffer_calls' = buffer_calls + 1

BufferApplyGain ==
    /\ audio_buffer # NoBuffer
    /\ buffer_calls < MaxBufferCalls
    /\ \E gain \in Gains :
         /\ audio_buffer' = apply_gain(audio_buffer, gain)
         /\ core_call' = [op |-> "apply_gain", gain |-> gain]
    /\ buffer_calls' = buffer_calls + 1

BufferMix ==
    /\ audio_buffer # NoBuffer
    /\ buffer_calls < MaxBufferCalls
    /\ \E other \in OtherBuffers :
         /\ audio_buffer' = mix(audio_buffer, other)
         /\ core_call' = [op |-> "mix", other |-> other]
    /\ buffer_calls' = buffer_calls + 1

\* ---- MusicalTime (types/time.rs) ----

\* pub const TICKS_PER_QUARTER_NOTE: i32 = 960.
TICKS_PER_QUARTER_NOTE == 960

\* MusicalTime is modelled on words of a smaller scale: i32 is
\* -(TimeI32Max + 1)..TimeI32Max and i64 is -(TimeI64Max + 1)..TimeI64Max.
\* As in the source, i32::MAX * i32::MAX * TICKS_PER_QUARTER_NOTE is above
\* i64::MAX, while i32::MAX * TICKS_PER_QUARTER_NOTE is far below it.
TimeI32Max == 15
TimeI64Max == 131071

\* Two's-complement wrapping into -(max + 1)..max.
Wrap(x, max) == ((x + max + 1) % (2 * (max + 1))) - (max + 1)

\* MusicalTime::to_ticks: bars * beats_per_bar * 960 + beats * 960 + ticks in
\* i64, unchecked.  Past i64::MAX the arithmetic panics where overflow checks
\* are compiled in and wraps where they are not.
to_ticks(t, beats_per_bar) ==
    LET bars  == t.bar - 1
        beats == t.beat - 1
        total == bars * beats_per_bar * TICKS_PER_QUARTER_NOTE
                   + beats * TICKS_PER_QUARTER_NOTE + t.tick
    IN  IF total <= TimeI64Max /\ total >= -(TimeI64Max + 1)
        THEN {[kind |-> "Ok", ticks |-> total]}
        ELSE {[kind |-> "panic"],
              [kind |-> "Ok", ticks |-> Wrap(total, TimeI64Max)]}

\* MusicalTime::from_ticks: truncating division and remainder in i64, `as i32`
\* casts (which wrap), and `+ 1` on the i32 (unchecked).  beats_per_bar = 0
\* divides by zero.
from_ticks(total_ticks, beats_per_bar) ==
    IF beats_per_bar = 0
    THEN {[kind |-> "panic"]}
    ELSE LET ticks_per_bar == beats_per_bar * TICKS_PER_QUARTER_NOTE
             bar0      == Wrap(TruncDiv(total_ticks, ticks_per_bar), TimeI32Max)
             remaining == RustRem(total_ticks, ticks_per_bar)
             beat0     == Wrap(TruncDiv(remaining, TICKS_PER_QUARTER_NOTE), TimeI32Max)
             tick      == Wrap(RustRem(remaining, TICKS_PER_QUARTER_NOTE), TimeI32Max)
             wrapped   == [kind |-> "Ok",
                           time |-> [bar  |-> Wrap(bar0 + 1, TimeI32Max),
                                     beat |-> Wrap(beat0 + 1, TimeI32Max),
                                     tick |-> tick]]
         IN  IF bar0 = TimeI32Max \/ beat0 = TimeI32Max
             THEN {[kind |-> "panic"], wrapped}
             ELSE {wrapped}

\* The ticks tried within a beat: both ends of 0..959 and one inside.
TickEdges == {0, 1, TICKS_PER_QUARTER_NOTE - 1}

\* The positions and meters converted: every bar and beats_per_bar of the
\* i32, every beat of the bar.
RoundTripInputs ==
    {c \in [bar : 1..TimeI32Max, beat : 1..TimeI32Max, tick : TickEdges,
            beats_per_bar : 1..TimeI32Max] : c.beat <= c.beats_per_bar}

RoundTripInit ==
    core_call \in {[op            |-> "round_trip",
                    time          |-> [bar |-> c.bar, beat |-> c.beat, tick |-> c.tick],
                    beats_per_bar |-> c.beats_per_bar,
                    ticks         |-> Pending,
                    back          |-> Pending] : c \in RoundTripInputs}

ToTicks ==
    /\ core_call.op = "round_trip"
    /\ core_call.ticks = Pending
    /\ \E r \in to_ticks(core_call.time, core_call.beats_per_bar) :
         core_call' = [core_call EXCEPT !.ticks = r]
    /\ UNCHANGED <<audio_buffer, buffer_calls>>

FromTicks ==
    /\ core_call.op = "round_trip"
    /\ core_call.ticks # Pending
    /\ core_call.ticks.kind = "Ok"
    /\ core_call.back = Pending
    /\ \E r \in from_ticks(core_call.ticks.ticks, core_call.beats_per_bar) :
         core_call' = [core_call EXCEPT !.back = r]
    /\ UNCHANGED <<audio_buffer, buffer_calls>>

\* ---- MidiMessage::from_bytes (types/midi.rs) ----

\* The largest u8.
U8Max == 255

RECURSIVE BitAnd(_, _)
\* a & b on non-negative integers.
BitAnd(a, b) ==
    IF a = 0 \/ b = 0 THEN 0
    ELSE 2 * BitAnd(a \div 2, b \div 2) + (IF a % 2 = 1 /\ b % 2 = 1 THEN 1 ELSE 0)

RECURSIVE BitOr(_, _)
\* a | b on non-negative integers.
BitOr(a, b) ==
    IF a = 0 THEN b
    ELSE IF b = 0 THEN a
    ELSE 2 * BitOr(a \div 2, b \div 2) + (IF a % 2 = 1 \/ b % 2 = 1 THEN 1 ELSE 0)

MidiChannelNew(channel) == Min(channel, 15)
NoteNumberNew(note) == Min(note, 127)
VelocityNew(velocity) == Min(velocity, 127)
ControlNumberNew(cc) == Min(cc, 127)

NoMessage == [type |-> "None"]

\* A faulty variant of NoteOnMessage: velocity 0 is still a NoteOn.
NoteOnAlways(channel, note, velocity) ==
    [type |-> "NoteOn", channel |-> channel, note |-> note, velocity |-> velocity]

\* The 0x90 arm of from_bytes: velocity 0 makes a NoteOff.
NoteOnMessage(channel, note, velocity) ==
    IF velocity = 0
    THEN [type |-> "NoteOff", channel |-> channel, note |-> note, velocity |-> velocity]
    ELSE [type |-> "NoteOn", channel |-> channel, note |-> note, velocity |-> velocity]

\* The 0xE0 arm of from_bytes: ((msb << 7) | lsb) - 8192 on i16, with the
\* two data bytes taken whole.
PitchBendValue(lsb, msb) == BitOr(msb * 128, lsb) - 8192

\* MidiMessage::from_bytes.  144 = 0x90, 128 = 0x80, 176 = 0xB0, 192 = 0xC0,
\* 224 = 0xE0, 208 = 0xD0, 160 = 0xA0.
from_bytes(data) ==
    IF data = <<>> THEN NoMessage
    ELSE LET status       == data[1]
             channel      == MidiChannelNew(BitAnd(status, 15))
             message_type == BitAnd(status, 240)
         IN  IF message_type = 144 /\ Len(data) >= 3
             THEN NoteOnMessage(channel, NoteNumberNew(data[2]), VelocityNew(data[3]))
             ELSE IF message_type = 128 /\ Len(data) >= 3
             THEN [type |-> "NoteOff", channel |-> channel,
                   note |-> NoteNumberNew(data[2]), velocity |-> VelocityNew(data[3])]
             ELSE IF message_type = 176 /\ Len(data) >= 3
             THEN [type |-> "ControlChange", channel |-> channel,
                   control |-> ControlNumberNew(data[2]), value |-> data[3]]
             ELSE IF message_type = 192 /\ Len(data) >= 2
             THEN [type |-> "ProgramChange", channel |-> channel, program |-> data[2]]
             ELSE IF message_type = 224 /\ Len(data) >= 3
             THEN [type |-> "PitchBend", channel |-> channel,
                   value |-> PitchBendValue(data[2], data[3])]
             ELSE IF message_type = 208 /\ Len(data) >= 2
             THEN [type |-> "ChannelPressure", channel |-> channel, pressure |-> data[2]]
             ELSE IF message_type = 160 /\ Len(data) >= 3
             THEN [type |-> "PolyPressure", channel |-> channel,
                   note |-> NoteNumberNew(data[2]), pressure |-> data[3]]
             ELSE NoMessage

\* The bytes decoded.  First byte: every message type on channel 0 and every
\* channel of Note On and Pitch Bend, with the bytes below 0x80 and 0xF0.
\* Second byte: every u8.  Third byte: the ends and the middle of the data
\* range and the bytes above it.
StatusBytes == {s \in 0..U8Max : s % 16 = 0 \/ BitAnd(s, 240) \in {144, 224}}
DataEdges == {0, 1, 63, 64, 127, 128, U8Max}
MidiInputs ==
    {<<>>}
      \cup {<<s>> : s \in StatusBytes}
      \cup {<<s, d1>> : s \in StatusBytes, d1 \in DataEdges}
      \cup {<<s, d1, d2>> : s \in StatusBytes, d1 \in 0..U8Max, d2 \in DataEdges}

FromBytesInit ==
    core_call \in {[op |-> "from_bytes", data |-> d, result |-> Pending] : d \in MidiInputs}

FromBytes ==
    /\ core_call.op = "from_bytes"
    /\ core_call.result = Pending
    /\ core_call' = [core_call EXCEPT !.result = from_bytes(core_call.data)]
    /\ UNCHANGED <<audio_buffer, buffer_calls>>

CoreIdle ==
    /\ audio_buffer = NoBuffer
    /\ buffer_calls = 0
    /\ core_call = NoCall

(***************************************************************************)
(* KotoApp::process_audio_events (koto-ui/src/app.rs) and UndoHistory      *)
(* (koto-undo/src/lib.rs)                                                  *)
(***************************************************************************)

\* ---- KotoApp: the control thread's view of the transport ----

\* The transport fields KotoApp::new sets (the playhead, the meters and the
\* other fields take no part in the view of the two flags).
KotoAppNew == [is_playing |-> FALSE, is_recording |-> FALSE]

\* The for loop of process_audio_events over the Vec receive_events returned:
\* a TransportStateChanged overwrites both flags, the other events leave
\* them.
RECURSIVE process_audio_events(_, _)
process_audio_events(a, events) ==
    IF events = <<>> THEN a
    ELSE LET event == Head(events)
         IN  process_audio_events(
                 IF event.type = "TransportStateChanged"
                 THEN [is_playing |-> event.is_playing,
                       is_recording |-> event.is_recording]
                 ELSE a,
                 Tail(events))

\* KotoApp::process_audio_events, once per frame of the UI: receive_events
\* pops until the channel is empty, then the loop above.  A frame that finds
\* the channel empty changes nothing and is left out.
ProcessAudioEvents ==
    /\ evq # <<>>
    /\ received' = evq
    /\ evq' = <<>>
    /\ app' = process_audio_events(app, evq)
    /\ UNCHANGED <<cmdq, send_last, cbVars, histVars, sessVars>>

AppIdle == app = KotoAppNew

\* ---- UndoHistory ----

\* execute is called up to this many times.
MaxExecutes == 5

\* The largest max_size a history is built with.
MaxHistory == 3

\* No history has been built.
NoHistory == [kind |-> "None"]

\* UndoHistory::new.
UndoHistoryNew(max_size) ==
    [undo_stack |-> <<>>, redo_stack |-> <<>>, max_size |-> max_size]

\* while self.undo_stack.len() > self.max_size { self.undo_stack.pop_front(); }
RECURSIVE Trim(_, _)
Trim(stack, max_size) ==
    IF Len(stack) > max_size THEN Trim(Tail(stack), max_size) ELSE stack

\* A faulty variant of execute: the undo stack is not trimmed.
execute_untrimmed(h, command) ==
    [h EXCEPT !.undo_stack = Append(@, command), !.redo_stack = <<>>]

\* UndoHistory::execute: the command runs, goes on the undo stack, the redo
\* stack is cleared and the undo stack trimmed from the front to max_size.
execute(h, command) ==
    [h EXCEPT !.undo_stack = Trim(Append(@, command), h.max_size),
              !.redo_stack = <<>>]

\* UndoHistory::undo: the newest command of the undo stack is undone and moves
\* to the redo stack; None on an empty undo stack.
undo(h) ==
    IF h.undo_stack = <<>>
    THEN [history |-> h, result |-> [kind |-> "None"]]
    ELSE LET command == h.undo_stack[Len(h.undo_stack)]
         IN  [history |-> [h EXCEPT
                             !.undo_stack = SubSeq(@, 1, Len(@) - 1),
                             !.redo_stack = Append(@, command)],
              result  |-> [kind |-> "Some", command |-> command]]

\* UndoHistory::redo: the newest command of the redo stack is executed again
\* and moves to the undo stack (which is not trimmed here); None on an empty
\* redo stack.
redo(h) ==
    IF h.redo_stack = <<>>
    THEN [history |-> h, result |-> [kind |-> "None"]]
    ELSE LET command == h.redo_stack[Len(h.redo_stack)]
         IN  [history |-> [h EXCEPT
                             !.redo_stack = SubSeq(@, 1, Len(@) - 1),
                             !.undo_stack = Append(@, command)],
              result  |-> [kind |-> "Some", command |-> command]]

\* UndoHistory::clear.
clear_history(h) == [h EXCEPT !.undo_stack = <<>>, !.redo_stack = <<>>]

\* A history as new builds it, for a max_size from 0 on.
UndoInit ==
    /\ undo_history \in {UndoHistoryNew(m) : m \in 0..MaxHistory}
    /\ undo_last = NoCall
    /\ executes = 0

UndoIdle ==
    /\ undo_history = NoHistory
    /\ undo_last = NoCall
    /\ executes = 0

\* history.execute(command) with a command boxed for the call: the model
\* numbers the commands in the order they are handed over.
Execute ==
    /\ executes < MaxExecutes
    /\ executes' = executes + 1
    /\ undo_history' = execute(undo_history, executes + 1)
    /\ undo_last' = [op |-> "execute", command |-> executes + 1]

\* history.undo().
Undo ==
    /\ undo_history' = undo(undo_history).history
    /\ undo_last' = [op |-> "undo", result |-> undo(undo_history).result]
    /\ UNCHANGED executes

\* history.redo().
Redo ==
    /\ undo_history' = redo(undo_history).history
    /\ undo_last' = [op |-> "redo", result |-> redo(undo_history).result]
    /\ UNCHANGED executes

\* history.clear().
ClearHistory ==
    /\ undo_history' = clear_history(undo_history)
    /\ undo_last' = [op |-> "clear"]
    /\ UNCHANGED executes

UiIdle == AppIdle /\ UndoIdle

(***************************************************************************)
(* Specifications                                                          *)
(***************************************************************************)

GraphNext ==
    \/ AddNode /\ UNCHANGED <<uiVars, obsVars, coreVars, schedVars, poolVars, engineVars>>
    \/ RemoveNode /\ UNCHANGED <<uiVars, obsVars, coreVars, schedVars, poolVars, engineVars>>
    \/ Connect /\ UNCHANGED <<uiVars, obsVars, coreVars, schedVars, poolVars, engineVars>>
    \/ Disconnect /\ UNCHANGED <<uiVars, obsVars, coreVars, schedVars, poolVars, engineVars>>

GraphSpecInit == GraphIdle /\ SchedIdle /\ PoolIdle /\ EngineIdle /\ CoreIdle /\ ObsIdle /\ UiIdle

GraphSpec == GraphSpecInit /\ [][GraphNext]_vars

SchedNext == ComputeOrder /\ UNCHANGED <<uiVars, obsVars, coreVars, graphVars, poolVars, engineVars>>

SchedSpecInit == SchedInit /\ GraphIdle /\ PoolIdle /\ EngineIdle /\ CoreIdle /\ ObsIdle /\ UiIdle

SchedSpec == SchedSpecInit /\ [][SchedNext]_vars

PoolNext ==
    \/ Acquire /\ UNCHANGED <<uiVars, obsVars, coreVars, graphVars, schedVars, engineVars>>
    \/ WriteLent /\ UNCHANGED <<uiVars, obsVars, coreVars, graphVars, schedVars, engineVars>>
    \/ Release /\ UNCHANGED <<uiVars, obsVars, coreVars, graphVars, schedVars, engineVars>>
    \/ GuardNew /\ UNCHANGED <<uiVars, obsVars, coreVars, graphVars, schedVars, engineVars>>
    \/ GuardWrite /\ UNCHANGED <<uiVars, obsVars, coreVars, graphVars, schedVars, engineVars>>
    \/ GuardDrop /\ UNCHANGED <<uiVars, obsVars, coreVars, graphVars, schedVars, engineVars>>

PoolSpecInit == PoolInit /\ GraphIdle /\ SchedIdle /\ EngineIdle /\ CoreIdle /\ ObsIdle /\ UiIdle

PoolSpec == PoolSpecInit /\ [][PoolNext]_vars

PoolApiNext ==
    \/ PoolNext
    \/ ReleaseAny /\ UNCHANGED <<uiVars, obsVars, coreVars, graphVars, schedVars, engineVars>>

PoolApiSpec == PoolSpecInit /\ [][PoolApiNext]_vars

\* The commands the control thread sends under Spec: the transport
\* transitions and the payloads at the edge of their types.
SessionCommands ==
    {[type |-> "Play"], [type |-> "Stop"],
     [type |-> "Seek", position |-> I64Max],
     [type |-> "SetTimeSignature", time_sig |-> [numerator |-> 0, denominator |-> 4]],
     [type |-> "SetMetronomeEnabled", enabled |-> TRUE]}

Init == EngineInit /\ GraphIdle /\ SchedIdle /\ PoolIdle /\ CoreIdle /\ ObsIdle /\ UiIdle

\* One session of the engine, followed on its command path: the control
\* thread sends commands and the device drives the callback.  The control
\* thread does not poll events here, so the event channel fills and drops.
Next ==
    \/ SendCommand(SessionCommands) /\ UNCHANGED <<uiVars, obsVars, coreVars, graphVars, schedVars, poolVars>>
    \/ ProcessBegin /\ UNCHANGED <<uiVars, obsVars, coreVars, graphVars, schedVars, poolVars>>
    \/ ProcessCommand /\ UNCHANGED <<uiVars, obsVars, coreVars, graphVars, schedVars, poolVars>>
    \/ ProcessRender /\ UNCHANGED <<uiVars, obsVars, coreVars, graphVars, schedVars, poolVars>>

Spec == Init /\ [][Next]_vars

\* The commands the control thread sends under CommandSpec: every command
\* type, with a playhead before the stream start, a volume inside [0, 1] and
\* one that is not a number, a tempo inside [20, 999] and Tempo(0.0), which
\* the public field of Tempo(pub f64) lets a caller build.
EveryCommand ==
    {[type |-> "Play"], [type |-> "Stop"], [type |-> "StartRecording"],
     [type |-> "StopRecording"],
     [type |-> "Seek", position |-> -1],
     [type |-> "SetTempo", tempo |-> 240],
     [type |-> "SetTempo", tempo |-> 0],
     [type |-> "SetTimeSignature", time_sig |-> [numerator |-> 3, denominator |-> 4]],
     [type |-> "SetMasterVolume", volume |-> 50],
     [type |-> "SetMasterVolume", volume |-> NaN],
     [type |-> "SetMetronomeEnabled", enabled |-> TRUE]}

CommandInit == EngineInit /\ GraphIdle /\ SchedIdle /\ PoolIdle /\ CoreIdle /\ ObsIdle /\ UiIdle

\* One session of the engine as AudioEngine::start wires it, under every
\* command type: the stream hands the callback whole stereo periods.
CommandNext ==
    \/ SendCommand(EveryCommand) /\ UNCHANGED <<uiVars, obsVars, coreVars, graphVars, schedVars, poolVars>>
    \/ ProcessBegin /\ UNCHANGED <<uiVars, obsVars, coreVars, graphVars, schedVars, poolVars>>
    \/ ProcessCommand /\ UNCHANGED <<uiVars, obsVars, coreVars, graphVars, schedVars, poolVars>>
    \/ ProcessPeriod /\ UNCHANGED <<uiVars, obsVars, coreVars, graphVars, schedVars, poolVars>>

CommandSpec == CommandInit /\ [][CommandNext]_vars

\* send_command is called up to this many times under TransportSpec.
MaxTransportSends == 2

\* CommandSpec with fewer sends, followed command by command.
TransportNext ==
    \/ /\ sends < MaxTransportSends
       /\ SendCommand(EveryCommand)
       /\ UNCHANGED <<uiVars, obsVars, coreVars, graphVars, schedVars, poolVars>>
    \/ ProcessBegin /\ UNCHANGED <<uiVars, obsVars, coreVars, graphVars, schedVars, poolVars>>
    \/ ProcessCommand /\ UNCHANGED <<uiVars, obsVars, coreVars, graphVars, schedVars, poolVars>>
    \/ ProcessPeriod /\ UNCHANGED <<uiVars, obsVars, coreVars, graphVars, schedVars, poolVars>>

TransportSpec == CommandInit /\ [][TransportNext]_vars

\* The commands the control thread sends under SessionSpec.
PlayStop == {[type |-> "Play"], [type |-> "Stop"]}

SessionInit == EngineIdle /\ GraphIdle /\ SchedIdle /\ PoolIdle /\ CoreIdle /\ ObsIdle /\ UiIdle

\* The device session from AudioEngine::new on: start and stop, commands
\* sent whether or not a stream is held, the stream's data callback while
\* one is.  The control thread does not poll events here.
SessionNext ==
    \/ Start /\ UNCHANGED <<uiVars, obsVars, coreVars, graphVars, schedVars, poolVars>>
    \/ Stop /\ UNCHANGED <<uiVars, obsVars, coreVars, graphVars, schedVars, poolVars>>
    \/ SendCommand(PlayStop) /\ UNCHANGED <<uiVars, obsVars, coreVars, graphVars, schedVars, poolVars>>
    \/ ProcessBegin /\ UNCHANGED <<uiVars, obsVars, coreVars, graphVars, schedVars, poolVars>>
    \/ ProcessCommand /\ UNCHANGED <<uiVars, obsVars, coreVars, graphVars, schedVars, poolVars>>
    \/ ProcessPeriod /\ UNCHANGED <<uiVars, obsVars, coreVars, graphVars, schedVars, poolVars>>

SessionSpec == SessionInit /\ [][SessionNext]_vars

\* SessionSpec with one command, the stream's error callback and the control
\* thread polling events.
EventNext ==
    \/ Start /\ UNCHANGED <<uiVars, obsVars, coreVars, graphVars, schedVars, poolVars>>
    \/ Stop /\ UNCHANGED <<uiVars, obsVars, coreVars, graphVars, schedVars, poolVars>>
    \/ StreamError /\ UNCHANGED <<uiVars, obsVars, coreVars, graphVars, schedVars, poolVars>>
    \/ SendCommand({[type |-> "Play"]}) /\ UNCHANGED <<uiVars, obsVars, coreVars, graphVars, schedVars, poolVars>>
    \/ ReceiveEvents /\ UNCHANGED <<uiVars, obsVars, coreVars, graphVars, schedVars, poolVars>>
    \/ ProcessBegin /\ UNCHANGED <<uiVars, obsVars, coreVars, graphVars, schedVars, poolVars>>
    \/ ProcessCommand /\ UNCHANGED <<uiVars, obsVars, coreVars, graphVars, schedVars, poolVars>>
    \/ ProcessPeriod /\ UNCHANGED <<uiVars, obsVars, coreVars, graphVars, schedVars, poolVars>>

EventSpec == SessionInit /\ [][EventNext]_vars

\* AudioBuffer under every call of its public API, from no buffer.
BufferNext ==
    \/ BufferNew /\ UNCHANGED <<uiVars, obsVars, graphVars, schedVars, poolVars, engineVars>>
    \/ FromSamples /\ UNCHANGED <<uiVars, obsVars, graphVars, schedVars, poolVars, engineVars>>
    \/ BufferSet /\ UNCHANGED <<uiVars, obsVars, graphVars, schedVars, poolVars, engineVars>>
    \/ BufferClear /\ UNCHANGED <<uiVars, obsVars, graphVars, schedVars, poolVars, engineVars>>
    \/ BufferCopyFrom /\ UNCHANGED <<uiVars, obsVars, graphVars, schedVars, poolVars, engineVars>>
    \/ BufferApplyGain /\ UNCHANGED <<uiVars, obsVars, graphVars, schedVars, poolVars, engineVars>>
    \/ BufferMix /\ UNCHANGED <<uiVars, obsVars, graphVars, schedVars, poolVars, engineVars>>

BufferSpecInit == CoreIdle /\ GraphIdle /\ SchedIdle /\ PoolIdle /\ EngineIdle /\ ObsIdle /\ UiIdle

BufferSpec == BufferSpecInit /\ [][BufferNext]_vars

\* MusicalTime: one position converted to ticks and back.
TimeNext ==
    \/ ToTicks /\ UNCHANGED <<uiVars, obsVars, graphVars, schedVars, poolVars, engineVars>>
    \/ FromTicks /\ UNCHANGED <<uiVars, obsVars, graphVars, schedVars, poolVars, engineVars>>

TimeSpecInit ==
    /\ RoundTripInit
    /\ audio_buffer = NoBuffer
    /\ buffer_calls = 0
    /\ GraphIdle /\ SchedIdle /\ PoolIdle /\ EngineIdle /\ ObsIdle /\ UiIdle

TimeSpec == TimeSpecInit /\ [][TimeNext]_vars

\* MidiMessage::from_bytes on one byte slice.
MidiNext == FromBytes /\ UNCHANGED <<uiVars, obsVars, graphVars, schedVars, poolVars, engineVars>>

MidiSpecInit ==
    /\ FromBytesInit
    /\ audio_buffer = NoBuffer
    /\ buffer_calls = 0
    /\ GraphIdle /\ SchedIdle /\ PoolIdle /\ EngineIdle /\ ObsIdle /\ UiIdle

MidiSpec == MidiSpecInit /\ [][MidiNext]_vars

\* One session with the control thread polling the event channel while the
\* callback runs.
PollNext ==
    \/ /\ sends < MaxTransportSends
       /\ SendCommand(PlayStop)
       /\ UNCHANGED <<uiVars, obsVars, coreVars, graphVars, schedVars, poolVars>>
    \/ ProcessBegin /\ UNCHANGED <<uiVars, obsVars, coreVars, graphVars, schedVars, poolVars>>
    \/ ProcessCommand /\ UNCHANGED <<uiVars, obsVars, coreVars, graphVars, schedVars, poolVars>>
    \/ ProcessPeriod /\ UNCHANGED <<uiVars, obsVars, coreVars, graphVars, schedVars, poolVars>>
    \/ ReceiveBegin /\ UNCHANGED <<uiVars, moved_gap, coreVars, graphVars, schedVars, poolVars>>
    \/ ReceivePop /\ UNCHANGED <<uiVars, moved_gap, coreVars, graphVars, schedVars, poolVars>>
    \/ ReceiveReturn /\ UNCHANGED <<uiVars, moved_gap, coreVars, graphVars, schedVars, poolVars>>

PollSpec == CommandInit /\ [][PollNext]_vars

\* One session with output slices of every length, the frames between
\* PlayheadMoved events counted.
MeterNext ==
    \/ /\ sends < MaxTransportSends
       /\ SendCommand(PlayStop)
       /\ UNCHANGED <<uiVars, obsVars, coreVars, graphVars, schedVars, poolVars>>
    \/ ProcessBegin /\ UNCHANGED <<uiVars, obsVars, coreVars, graphVars, schedVars, poolVars>>
    \/ ProcessCommand /\ UNCHANGED <<uiVars, obsVars, coreVars, graphVars, schedVars, poolVars>>
    \/ ProcessRender /\ MovedGap /\ UNCHANGED <<uiVars, rx, coreVars, graphVars, schedVars, poolVars>>

MeterSpec == CommandInit /\ [][MeterNext]_vars

\* The commands the control thread sends under AppSpec: the four the
\* transport buttons of the toolbar send.
AppCommands ==
    {[type |-> "Play"], [type |-> "Stop"], [type |-> "StartRecording"],
     [type |-> "StopRecording"]}

AppInit ==
    EngineInit /\ GraphIdle /\ SchedIdle /\ PoolIdle /\ CoreIdle /\ ObsIdle
        /\ AppIdle /\ UndoIdle

\* KotoApp beside a running engine: the toolbar sends commands, the stream
\* drives the callback, and a UI frame polls the events whenever it comes.
AppNext ==
    \/ SendCommand(AppCommands) /\ UNCHANGED <<uiVars, obsVars, coreVars, graphVars, schedVars, poolVars>>
    \/ ProcessBegin /\ UNCHANGED <<uiVars, obsVars, coreVars, graphVars, schedVars, poolVars>>
    \/ ProcessCommand /\ UNCHANGED <<uiVars, obsVars, coreVars, graphVars, schedVars, poolVars>>
    \/ ProcessPeriod /\ UNCHANGED <<uiVars, obsVars, coreVars, graphVars, schedVars, poolVars>>
    \/ ProcessAudioEvents /\ UNCHANGED <<undoVars, obsVars, coreVars, graphVars, schedVars, poolVars>>

AppSpec == AppInit /\ [][AppNext]_vars

UndoSpecInit ==
    UndoInit /\ AppIdle /\ GraphIdle /\ SchedIdle /\ PoolIdle /\ EngineIdle
        /\ CoreIdle /\ ObsIdle

\* An UndoHistory under any sequence of its four operations.
UndoNext ==
    \/ Execute /\ UNCHANGED <<appVars, obsVars, coreVars, graphVars, schedVars, poolVars, engineVars>>
    \/ Undo /\ UNCHANGED <<appVars, obsVars, coreVars, graphVars, schedVars, poolVars, engineVars>>
    \/ Redo /\ UNCHANGED <<appVars, obsVars, coreVars, graphVars, schedVars, poolVars, engineVars>>
    \/ ClearHistory /\ UNCHANGED <<appVars, obsVars, coreVars, graphVars, schedVars, poolVars, engineVars>>

UndoSpec == UndoSpecInit /\ [][UndoNext]_vars

(***************************************************************************)
(* Claims                                                                  *)
(***************************************************************************)

IsPrefix(s, t) == Len(s) <= Len(t) /\ SubSeq(t, 1, Len(s)) = s

\* ---- properties of AudioGraph ----

\* C20: every id add_node returns is greater than every id it returned
\* before, so no id is handed out twice, whatever was removed in between;
\* the nodes of the graph are among the ids handed out.
C20_NodeIdsNeverReused ==
    /\ \A i \in DOMAIN issued : \A j \in DOMAIN issued :
          (i < j) => issued[i] < issued[j]
    /\ graph.nodes \subseteq {issued[i] : i \in DOMAIN issued}

\* Node 0 was removed, and the add_node after that returned 2.
C20_Witness ==
    /\ issued = <<0, 1, 2>>
    /\ add_last.id = 2
    /\ add_last.before = {1}
    /\ graph.nodes = {1, 2}

\* C21: remove_node(id) for a node of the graph removes that node and the
\* connections whose source or target is id, keeping every other node and
\* connection, in order; for an id that names no node it changes neither the
\* nodes nor the connection list.  Stated of remove_node on the graph as it
\* is, for every id.
C21_RemoveNodeFrame ==
    \A id \in GraphIds :
        LET after == remove_node(graph, id)
        IN  /\ after.next_id = graph.next_id
            /\ (id \in graph.nodes) =>
                  /\ after.nodes = graph.nodes \ {id}
                  /\ after.connections =
                        SelectSeq(graph.connections,
                                  LAMBDA c : c.source # id /\ c.target # id)
            /\ (id \notin graph.nodes) =>
                  /\ after.nodes = graph.nodes
                  /\ after.connections = graph.connections

\* ---- properties of compute_order ----

EdgeSet(conns) == {conns[i] : i \in DOMAIN conns}

RECURSIVE Closure(_, _)
\* Transitive closure of the edge relation R, by k rounds of composition.
Closure(R, k) ==
    IF k = 0 THEN R
    ELSE Closure(R \cup {<<p[1][1], p[2][2]>> : p \in {q \in R \X R : q[1][2] = q[2][1]}},
                 k - 1)

HasCycle(conns) ==
    \E n \in AllNodes(conns) :
        <<n, n>> \in Closure(EdgeSet(conns), Cardinality(AllNodes(conns)))

PositionsOf(seq, n) == {i \in DOMAIN seq : seq[i] = n}

\* Every edge's source is before its target, and every referenced node is in
\* the order exactly once (and nothing else is).
IsTopologicalOrder(nodes, conns) ==
    /\ \A n \in AllNodes(conns) : Cardinality(PositionsOf(nodes, n)) = 1
    /\ \A i \in DOMAIN nodes : nodes[i] \in AllNodes(conns)
    /\ \A c \in EdgeSet(conns) :
          \A i \in PositionsOf(nodes, c[1]), j \in PositionsOf(nodes, c[2]) : i < j

\* C1: for an acyclic connection list compute_order returns a valid
\* topological order holding every referenced node exactly once; the chain
\* 0->1->2 yields <<0, 1, 2>>.
C1_TopologicalOrder ==
    (runs > 0 /\ ~HasCycle(connections)) =>
        /\ order.kind = "Order"
        /\ IsTopologicalOrder(order.nodes, connections)
        /\ (connections = <<<<0, 1>>, <<1, 2>>>> => order.nodes = <<0, 1, 2>>)

\* A fan-in (two sources feeding node 2) has been ordered.
C1_Witness ==
    /\ runs > 0
    /\ connections = <<<<0, 2>>, <<1, 2>>>>
    /\ order.kind = "Order"
    /\ order.nodes[3] = 2

\* C2: for a connection list with a cycle compute_order reports a distinct
\* GraphCycle outcome and hands back no order.
C2_CycleReported ==
    (runs > 0 /\ HasCycle(connections)) => order.kind = "GraphCycle"

\* C3: compute_order is deterministic: two calls on the same connection list
\* return the identical order.
C3_Deterministic ==
    (runs >= 2) => order = prev_order


\* ---- properties of BufferPool and PooledBuffer ----

\* Buffers obtained from the pool and not yet given back.
Outstanding == Len(lent) + (IF guard = NoGuard THEN 0 ELSE 1)

\* C7: with only buffers obtained from the pool released, outstanding never
\* exceeds N and available() + outstanding = N; acquire on an empty pool
\* returns None and leaves the pool unchanged; with every buffer released,
\* available() = N.
C7_PoolConservation ==
    /\ Outstanding <= pool_size
    /\ available(pool) + Outstanding = pool_size
    /\ (pool_last.op = "acquire" /\ available(pool_last.before) = 0) =>
          /\ pool_last.result.kind = "None"
          /\ pool_last.after = pool_last.before
          /\ pool_last.holds_after = pool_last.holds_before
    /\ (pool_last.op = "acquire" /\ available(pool_last.before) > 0) =>
          /\ pool_last.result.kind = "Some"
          /\ available(pool_last.after) = available(pool_last.before) - 1
    /\ (Outstanding = 0) => available(pool) = pool_size

\* Every buffer of a pool of two has been acquired and one is back.
C7_Witness ==
    /\ pool_size = 2
    /\ pool_last.op = "release"
    /\ available(pool_last.before) = 0
    /\ available(pool) = 1
    /\ Len(lent) = 1

\* An acquire met an empty pool.
C7_WitnessExhausted ==
    /\ pool_last.op = "acquire"
    /\ pool_size > 0
    /\ available(pool_last.before) = 0

\* C8: under every call the public API permits the free list holds at most
\* the N buffers of construction, each of the pool's channel and frame count.
C8_FixedUniform ==
    /\ available(pool) <= pool_size
    /\ \A i \in DOMAIN pool.buffers :
          /\ pool.buffers[i].channels = pool.channels
          /\ pool.buffers[i].frames = pool.frames

\* C9: once a PooledBuffer's scope has ended, on any exit path, available()
\* is what it was before PooledBuffer::new and the buffer went back exactly
\* once; PooledBuffer::new on an exhausted pool yields nothing and leaves the
\* pool unchanged.
C9_GuardReturnsBuffer ==
    /\ (guard_log.state \in ExitPaths) =>
          /\ available(guard_log.after) = available(guard_log.before)
          /\ guard_log.returned = 1
    /\ (guard # NoGuard) =>
          /\ guard_log.state = "open"
          /\ pool = guard_log.after
          /\ available(pool) = available(guard_log.before) - 1
    /\ (guard_log.state = "refused") =>
          /\ available(guard_log.before) = 0
          /\ guard_log.after = guard_log.before

\* A scope that wrote into its buffer ended by unwinding.
C9_Witness ==
    /\ guard_log.state = "unwind"
    /\ available(guard_log.before) = 1
    /\ pool = guard_log.after
    /\ guard = NoGuard

\* PooledBuffer::new met an exhausted pool of non-zero size.
C9_WitnessExhausted ==
    /\ guard_log.state = "refused"
    /\ pool_size > 0

\* ---- properties of the command channel and the callback ----

\* C4: the commands the callback has applied are a prefix of the commands
\* send_command accepted: same commands, same order, none twice; what is
\* accepted and not yet applied is what the channel holds.
C4_CommandsFifo ==
    /\ IsPrefix(applied, accepted)
    /\ accepted = applied \o cmdq

\* Commands sent before, during and after a callback have been applied by two
\* callbacks, and they differ.
C4_Witness ==
    /\ callbacks = 2
    /\ cb_pc = "idle"
    /\ Len(applied) = 3
    /\ applied[1] # applied[2]
    /\ applied[2] # applied[3]
    /\ rendered.kind = "Some"
    /\ Len(rendered.drained) = 1

\* C5: a send_command that finds the channel holding its full capacity
\* returns false and leaves the channel as it was, the rejected command is not
\* among the accepted ones, and the queued commands are applied unchanged and
\* in order.
C5_FullChannelRejects ==
    /\ (send_last.op = "send" /\ Len(send_last.before) >= CommandCapacity) =>
          /\ ~send_last.ok
          /\ send_last.after = send_last.before
    /\ (send_last.op = "send" /\ Len(send_last.before) < CommandCapacity) =>
          /\ send_last.ok
          /\ send_last.after = Append(send_last.before, send_last.command)
    /\ Len(cmdq) <= CommandCapacity
    /\ Len(accepted) + (IF send_last.op = "send" /\ ~send_last.ok THEN 1 ELSE 0) <= sends
    /\ accepted = applied \o cmdq

\* A send was rejected by a full channel, and the callback has since applied
\* exactly the commands that were queued then.
C5_Witness ==
    /\ send_last.op = "send"
    /\ ~send_last.ok
    /\ Len(send_last.before) = CommandCapacity
    /\ ~(send_last.command \in {send_last.before[i] : i \in DOMAIN send_last.before})
    /\ applied = send_last.before
    /\ cmdq = <<>>

\* C6: when process goes on past the drain, every command that was in the
\* channel when it began has been applied, in order, and the channel is
\* empty; with the channel empty the drain does not wait.
C6_DrainExhaustive ==
    /\ (rendered.kind # "None") =>
          /\ IsPrefix(rendered.at_begin, rendered.drained)
          /\ rendered.left = <<>>
    /\ (cb_pc = "drain" /\ cmdq = <<>>) => ENABLED ProcessRender

\* A callback began with a full channel, drained it and one more command
\* that arrived meanwhile, and rendered.
C6_Witness ==
    /\ rendered.kind = "Some"
    /\ Len(rendered.at_begin) = CommandCapacity
    /\ Len(rendered.drained) = CommandCapacity + 1

\* C10: the audio callback never panics.
C10_NeverPanics == cb_pc # "panicked"

\* C11: no step of AudioCallback::process allocates or reallocates heap
\* memory, whatever commands it drains and whatever input it captures.
C11_NoAllocation == audio_allocs = 0

\* The step applied a command: the one now last in `applied`.
CommandApplied(type) ==
    /\ Len(applied') = Len(applied) + 1
    /\ applied'[Len(applied')].type = type

\* The step is the part of process after the drain.
Rendering == cb_pc = "drain" /\ cb_pc' # "drain"

\* C12: the playhead changes only when a Seek is applied or when a callback
\* runs while is_playing; a callback with the transport stopped leaves it
\* alone, and a playing callback never moves it backwards.
C12_PlayheadMoves ==
    [][(transport'.playhead # transport.playhead) =>
          \/ CommandApplied("Seek")
          \/ /\ Rendering
             /\ transport.is_playing
             /\ transport'.playhead >= transport.playhead]_vars

\* C13: a callback that ran while playing advanced the playhead by the
\* frames of its output region: the output length over the channel count of
\* the stream the session opened.
C13_AdvanceByFrames ==
    (rendered.kind = "Some" /\ rendered.playing /\ output_stream # NoStream) =>
        transport.playhead =
            rendered.playhead_before + rendered.len \div output_stream.channels

TransportCommandTypes == {"Play", "Stop", "StartRecording", "StopRecording"}

\* C14: applying Play, Stop, StartRecording or StopRecording pushes one
\* TransportStateChanged carrying the two flags as the command left them, at
\* the back of the event channel (nothing when the channel is full); applying
\* any other command pushes nothing and leaves both flags alone.
C14_TransportEvents ==
    [][(Len(applied') = Len(applied) + 1) =>
          LET command == applied'[Len(applied')]
              changed == [type |-> "TransportStateChanged",
                          is_playing |-> transport'.is_playing,
                          is_recording |-> transport'.is_recording]
          IN  /\ (command.type \in TransportCommandTypes) =>
                    /\ evq' = IF Len(evq) < EventCapacity
                              THEN Append(evq, changed) ELSE evq
                    /\ transport'.is_playing =
                          (IF command.type = "Play" THEN TRUE
                           ELSE IF command.type = "Stop" THEN FALSE
                           ELSE transport.is_playing)
                    /\ transport'.is_recording =
                          (IF command.type = "StartRecording" THEN TRUE
                           ELSE IF command.type = "StopRecording" THEN FALSE
                           ELSE transport.is_recording)
              /\ (command.type \notin TransportCommandTypes) =>
                    /\ evq' = evq
                    /\ transport'.is_playing = transport.is_playing
                    /\ transport'.is_recording = transport.is_recording]_vars

\* One drain applied Play and StartRecording: two events, in that order.
C14_Witness ==
    /\ cb_pc = "drain"
    /\ Len(applied) = 2
    /\ applied[1].type = "Play"
    /\ applied[2].type = "StartRecording"
    /\ evq = <<[type |-> "TransportStateChanged",
                is_playing |-> TRUE, is_recording |-> FALSE],
               [type |-> "TransportStateChanged",
                is_playing |-> TRUE, is_recording |-> TRUE]>>

\* C15: the stored master volume is always within [0, 1], a SetMasterVolume
\* stores its value clamped to that range, and every output sample is the
\* rendered sample (a click of full scale, or silence) times the volume.
C15_MasterVolume ==
    /\ master_volume >= 0
    /\ master_volume <= 100
    /\ (applied # <<>> /\ cb_pc = "drain" /\ Len(applied) > done_at_begin
          /\ applied[Len(applied)].type = "SetMasterVolume"
          /\ applied[Len(applied)].volume \in 0..100) =>
              master_volume = applied[Len(applied)].volume
    /\ \A i \in DOMAIN output :
          output[i] = Silence \/ output[i].gain = master_volume

\* ---- properties of the device session ----

\* C17: is_running is true exactly when an output stream is held, and a
\* start() that failed, at whichever step, left the engine stopped with no
\* stream.
C17_NeverHalfOpen ==
    /\ is_running <=> (output_stream # NoStream)
    /\ (session_last.op = "start" /\ session_last.result # "Ok") =>
          /\ ~is_running
          /\ output_stream = NoStream

\* A session ran a callback and was stopped; the start() after it failed at
\* play().
C17_Witness ==
    /\ session_last.op = "start"
    /\ session_last.result = "play stream failed"
    /\ starts = 2
    /\ callbacks > 0
    /\ ~is_running

\* The engine's session fields.
SessionFields == [stream |-> output_stream, running |-> is_running]

\* C18: after stop() no stream is held and is_running is false; a stop() of
\* a stopped (or never started) engine changes nothing; from the return of
\* stop() on, no callback is in flight, none begins, no command is consumed
\* and no event is emitted.
C18_StopReleases ==
    /\ [](session_last.op = "stop" =>
            /\ output_stream = NoStream
            /\ ~is_running
            /\ cb_pc # "drain"
            /\ StopResult(SessionFields) = SessionFields
            /\ (~session_last.before.running =>
                    session_last.after = session_last.before))
    /\ [][(session_last.op = "stop" /\ session_last'.op = "stop") =>
            /\ callbacks' = callbacks
            /\ applied' = applied
            /\ IsPrefix(cmdq, cmdq')
            /\ evq' = evq]_vars

\* A session that applied a command and emitted events was stopped, and a
\* command sent since then sits in the channel.
C18_Witness ==
    /\ session_last.op = "stop"
    /\ session_last.before.running
    /\ applied # <<>>
    /\ evq # <<>>
    /\ cmdq # <<>>

\* C19: once the stream's error callback has fired, receive_events returns
\* a DeviceError.
C19_ErrorSurfaced == stream_error # "missed"

\* C16: a click is 880 Hz when floor(position / samples_per_beat) is a
\* multiple of the numerator and 440 Hz otherwise.
C16_ClickFrequency ==
    \A i \in DOMAIN output :
        (output[i].freq \in {440, 880}) =>
            ((output[i].freq = 880) <=>
                ((BeatNum(output[i].pos, transport.tempo) \div BeatDen)
                    % transport.time_signature.numerator = 0))


\* ---- properties of the koto-core value types ----

\* C22: every AudioBuffer has a sample store of channels * frames samples:
\* as built by new or by from_samples from a store of any length, and after
\* set, clear, copy_from, apply_gain and mix.
C22_StoreLength ==
    audio_buffer # NoBuffer =>
        Len(audio_buffer.samples) = audio_buffer.channels * audio_buffer.frames

\* C23: from_samples fails with ShapeMismatch, and produces no buffer, when
\* the store's length is not a multiple of the channel count (a channel count
\* of 0 included); otherwise it succeeds with frames = length / channels.
C23_ShapeMismatch ==
    core_call.op = "from_samples" =>
        IF core_call.channels = 0 \/ Len(core_call.samples) % core_call.channels # 0
        THEN core_call.result.kind = "ShapeMismatch"
        ELSE /\ core_call.result.kind = "Ok"
             /\ core_call.result.buffer.frames * core_call.channels
                  = Len(core_call.samples)

\* C24: from_ticks(to_ticks(t, bpb), bpb) = t for every bar >= 1,
\* 1 <= beat <= bpb, 0 <= tick < 960 and bpb >= 1: both conversions return,
\* and the position that comes back is the position that went in.
C24_RoundTrip ==
    (/\ core_call.op = "round_trip"
     /\ core_call.time.bar >= 1
     /\ core_call.beats_per_bar >= 1
     /\ core_call.time.beat >= 1 /\ core_call.time.beat <= core_call.beats_per_bar
     /\ core_call.time.tick >= 0 /\ core_call.time.tick < 960
     /\ core_call.ticks # Pending)
        => /\ core_call.ticks.kind = "Ok"
           /\ core_call.back # Pending =>
                 /\ core_call.back.kind = "Ok"
                 /\ core_call.back.time = core_call.time

\* C25: a Note-On message (status 0x90 + n) with velocity 0 decodes to a
\* NoteOff, never a NoteOn, for every channel n in 0..15 and every note; with
\* a velocity other than 0 it decodes to a NoteOn; both carry channel n and
\* the note of the message.
C25_NoteOnZeroVelocity ==
    (/\ core_call.op = "from_bytes"
     /\ core_call.result # Pending
     /\ Len(core_call.data) = 3
     /\ core_call.data[1] >= 144 /\ core_call.data[1] <= 159)
        => /\ core_call.result.type =
                 (IF core_call.data[3] = 0 THEN "NoteOff" ELSE "NoteOn")
           /\ core_call.result.channel = core_call.data[1] - 144
           /\ core_call.data[2] <= 127 => core_call.result.note = core_call.data[2]

\* Note On, channel 15, middle C, velocity 0, decoded as a NoteOff.
C25_Witness ==
    /\ core_call.op = "from_bytes"
    /\ core_call.data = <<159, 60, 0>>
    /\ core_call.result # Pending
    /\ core_call.result.type = "NoteOff"
    /\ core_call.result.channel = 15
    /\ core_call.result.note = 60

\* C26: every Pitch Bend from_bytes decodes, for every value 0..255 of its two
\* data bytes, carries a value in -8192..8191, and the value is 0 at the
\* centre (lsb 0, msb 64).
C26_PitchBendRange ==
    (/\ core_call.op = "from_bytes"
     /\ core_call.result # Pending
     /\ core_call.result.type = "PitchBend")
        => /\ core_call.result.value >= -8192
           /\ core_call.result.value <= 8191
           /\ (core_call.data[2] = 0 /\ core_call.data[3] = 64)
                 => core_call.result.value = 0

\* C27: the tempo is always within 20..999 BPM: the transport's tempo, after
\* any sequence of SetTempo commands carrying any Tempo a caller can build;
\* so samples_per_beat (sample_rate * 60 / tempo) is finite and positive.
C27_TempoInRange ==
    /\ transport.tempo >= 20
    /\ transport.tempo <= 999

\* ---- properties of the event channel ----

\* C28: one receive_events call returns every event that was in the channel
\* when it was called, in emission order, and removes them: while it runs,
\* every such event is in its Vec or still in the channel, in order; an event
\* leaves the channel only into the Vec, events enter only at the back, and
\* the call returns the Vec once the channel is empty.  So no event is lost
\* and none is returned by two calls.
C28_DrainAll ==
    /\ [](/\ rx.pc = "pop" => IsPrefix(rx.at_call, rx.events \o evq)
          /\ (rx.pc = "idle" /\ rx.calls > 0) => IsPrefix(rx.at_call, received))
    /\ [][IF rx.pc = "pop" /\ rx'.pc = "idle"
          THEN /\ received' = rx.events
               /\ evq = <<>>
               /\ evq' = <<>>
          ELSE /\ received' = received
               /\ rx.pc = "pop" => IsPrefix(rx.events \o evq, rx'.events \o evq')]_vars

\* A call that found events in the channel and returned them together with
\* events the callback pushed while the call was running.
C28_Witness ==
    /\ rx.pc = "idle"
    /\ rx.at_call # <<>>
    /\ Len(received) > Len(rx.at_call)

\* C29: the callback pushes one MeterUpdate each time the frames processed
\* since the previous one reach meter_update_interval (and none before), and
\* the levels it carries are computed over all the frames of that window.
C29_MeterWindow ==
    [][(cb_pc = "drain" /\ cb_pc' = "idle" /\ rendered'.kind = "Some") =>
          LET window == meter_frame_counter + rendered'.frames
              meters == SelectSeq(Pushed, LAMBDA e : e.type = "MeterUpdate")
          IN  /\ Len(meters) <= 1
              /\ (window >= meter_update_interval /\ Len(evq) < EventCapacity)
                    => Len(meters) = 1
              /\ window < meter_update_interval => Len(meters) = 0
              /\ \A i \in DOMAIN meters : meters[i].frames = window]_vars

\* C30: PlayheadMoved is rate-limited: an invocation of process puts one into
\* the channel only while playing, and only when at least
\* meter_update_interval frames were processed since the previous one,
\* whatever the sizes of the callbacks, zero frames included.
C30_PlayheadRateLimited ==
    [][(cb_pc = "drain" /\ cb_pc' = "idle" /\ Pushes("PlayheadMoved")) =>
          /\ rendered'.kind = "Some"
          /\ rendered'.playing
          /\ \/ moved_gap = -1
             \/ moved_gap + rendered'.frames >= meter_update_interval]_vars

\* ---- further properties of AudioGraph and compute_order ----

\* C37: after any sequence of add_node, remove_node, connect and disconnect,
\* every connection in the list has a source and a target that are nodes of
\* the graph.
C37_ReferentialIntegrity ==
    \A i \in DOMAIN graph.connections :
        /\ graph.connections[i].source \in graph.nodes
        /\ graph.connections[i].target \in graph.nodes

C32_SilentOutput ==
    (/\ cb_pc = "idle"
     /\ rendered.kind = "Some"
     /\ ~(rendered.playing /\ metronome_enabled))
        => \A i \in DOMAIN output : output[i] = Silence

\* C33: with the metronome enabled and the transport playing, a frame carries
\* click signal only when its absolute position lies in the first hundredth
\* of a beat (position mod samples_per_beat below 1% of samples_per_beat),
\* for every playhead Seek can set, positions before 0 included.
C33_ClickWindow ==
    (cb_pc = "idle" /\ rendered.kind = "Some") =>
        \A i \in DOMAIN output :
            (output[i].freq \in {440, 880}) =>
                (BeatNum(output[i].pos, transport.tempo) % BeatDen) * 100 < BeatDen

\* ---- recording ----

\* The commands the control thread sends under RecordSpec.
RecordCommands ==
    {[type |-> "Play"], [type |-> "StartRecording"], [type |-> "StopRecording"]}

\* One session of the engine while recording: process is handed slices of
\* any length, with and without an input slice, and try_lock on the
\* recording buffer gives the guard or None.
RecordNext ==
    \/ SendCommand(RecordCommands) /\ UNCHANGED <<uiVars, obsVars, coreVars, graphVars, schedVars, poolVars>>
    \/ ProcessBegin /\ UNCHANGED <<uiVars, obsVars, coreVars, graphVars, schedVars, poolVars>>
    \/ ProcessCommand /\ UNCHANGED <<uiVars, obsVars, coreVars, graphVars, schedVars, poolVars>>
    \/ ProcessRender /\ UNCHANGED <<uiVars, obsVars, coreVars, graphVars, schedVars, poolVars>>

RecordSpec == CommandInit /\ [][RecordNext]_vars

\* An outcome of process without what the capture step writes.
BesideCapture(r) == [r EXCEPT !.recording_buffer = 0, !.audio_allocs = 0]

\* C31: when process runs its capture step while recording, with an input
\* slice: if try_lock gives None the recording buffer stays as it was, and
\* the output, the transport with its playhead, the meter counter and the
\* event channel come out as they do when it gives the guard; if it gives the
\* guard the buffer grows by exactly the input slice's samples.
C31_CaptureNeverBlocks ==
    (/\ cb_pc = "drain"
     /\ DrainFinished
     /\ transport.is_recording
     /\ recording_buffer.kind = "Some")
        => \A args \in ProcessArgs :
              args.input.kind = "Some" =>
                 LET held == process(Callback, args, "None")
                     free == process(Callback, args, "Some")
                 IN  /\ {BesideCapture(r) : r \in held}
                            = {BesideCapture(r) : r \in free}
                     /\ \A r \in held : r.recording_buffer = recording_buffer
                     /\ \A r \in free :
                           /\ r.recording_buffer.kind = "Some"
                           /\ r.recording_buffer.len
                                 = recording_buffer.len + args.input.len

\* process is about to capture while playing and recording, into a buffer
\* that holds the samples of an earlier period.
C31_Witness ==
    /\ cb_pc = "drain"
    /\ DrainFinished
    /\ transport.is_recording
    /\ transport.is_playing
    /\ recording_buffer.kind = "Some"
    /\ recording_buffer.len = MaxOutputLen

\* The command the step applied.
AppliedNow == applied'[Len(applied')]

\* C36: a recording buffer is present exactly when is_recording is true.
\* StartRecording sets the flag and installs an empty buffer, StopRecording
\* clears the flag and drops the buffer, and no other step of the callback
\* changes the flag or whether a buffer is present.
C36_BufferIffRecording ==
    /\ [](transport.is_recording <=> recording_buffer.kind = "Some")
    /\ [][/\ (Len(applied') > Len(applied) /\ AppliedNow.type = "StartRecording")
                => /\ transport'.is_recording
                   /\ recording_buffer'.kind = "Some"
                   /\ recording_buffer'.len = 0
          /\ (Len(applied') > Len(applied) /\ AppliedNow.type = "StopRecording")
                => /\ ~transport'.is_recording
                   /\ recording_buffer' = [kind |-> "None"]
          /\ ~(/\ Len(applied') > Len(applied)
               /\ AppliedNow.type \in {"StartRecording", "StopRecording"})
                => /\ transport'.is_recording = transport.is_recording
                   /\ recording_buffer'.kind = recording_buffer.kind]_vars

\* StopRecording has been applied to a callback that StartRecording had
\* given a recording buffer.
C36_Witness ==
    /\ applied # <<>>
    /\ applied[Len(applied)].type = "StopRecording"
    /\ \E i \in DOMAIN applied : applied[i].type = "StartRecording"
    /\ ~transport.is_recording
    /\ recording_buffer.kind = "None"

\* ---- a full event channel ----

\* What the channel `before` holds after the pushes that took the empty
\* channel to `pushed`: those that fit, in order.
WhatFits(before, pushed) ==
    before \o SubSeq(pushed, 1, Min(Len(pushed), EventCapacity - Len(before)))

\* C39: the event channel never holds more than its capacity, and what the
\* callback does next does not depend on how full it is: the command it
\* applies, and the rest of process on any period, leave the transport, the
\* master volume, the metronome flag, the meter counter, the recording
\* buffer and the output samples as they would with an empty event channel,
\* and the channel gains the events that fit, in order.
C39_FullChannelHarmless ==
    /\ Len(evq) <= EventCapacity
    /\ (cb_pc = "drain" /\ ~DrainFinished) =>
          LET now  == ApplyCommand(Head(cmdq), transport, master_volume,
                                   metronome_enabled, recording_buffer, evq)
              room == ApplyCommand(Head(cmdq), transport, master_volume,
                                   metronome_enabled, recording_buffer, <<>>)
          IN  /\ [now EXCEPT !.evq = <<>>] = [room EXCEPT !.evq = <<>>]
              /\ now.evq = WhatFits(evq, room.evq)
    /\ (cb_pc = "drain" /\ DrainFinished) =>
          \A args \in DeviceArgs : \A lock \in TryLock :
              LET now  == process(Callback, args, lock)
                  room == process([Callback EXCEPT !.evq = <<>>], args, lock)
                  Same(r, r0) ==
                      /\ [r EXCEPT !.evq = <<>>] = [r0 EXCEPT !.evq = <<>>]
                      /\ r.evq = WhatFits(evq, r0.evq)
              IN  /\ \A r \in now : \E r0 \in room : Same(r, r0)
                  /\ \A r0 \in room : \E r \in now : Same(r, r0)

\* A callback ran while playing on a channel without room for all its
\* events: the channel is full and the PlayheadMoved did not get in.
C39_Witness ==
    /\ cb_pc = "idle"
    /\ rendered.kind = "Some"
    /\ rendered.playing
    /\ Len(evq) = EventCapacity
    /\ evq[Len(evq)].type # "PlayheadMoved"

\* ---- commands across start and stop ----

\* C34: a command send_command accepted is applied by the callback once the
\* engine runs; none is lost, also not one accepted before start() or between
\* stop() and the next start().  As what a finite run can break: a start()
\* that gets the engine running never throws away a command channel that
\* holds accepted commands.
C34_AcceptedNotLost ==
    (session_last.op = "start" /\ session_last.result = "Ok")
        => session_last.discarded = <<>>

\* ---- the control thread's view and the undo history ----

\* C35: in every quiescent state (no command waiting, the callback idle,
\* every event in the channel polled and applied) the is_playing and
\* is_recording KotoApp last saw are the callback's transport flags, however
\* full the event channel got before the poll.
C35_ViewConverges ==
    (cmdq = <<>> /\ cb_pc = "idle" /\ evq = <<>>) =>
        /\ app.is_playing = transport.is_playing
        /\ app.is_recording = transport.is_recording

\* The stacks share no command and hold none twice.
NoCommandTwice(h) ==
    LET all == h.undo_stack \o h.redo_stack
    IN  \A i, j \in DOMAIN all : i # j => all[i] # all[j]

\* C40: after any sequence of execute, undo, redo and clear the undo stack
\* holds at most max_size commands, the redo stack is empty right after an
\* execute, and no command is in both stacks.
C40_HistoryBounded ==
    /\ Len(undo_history.undo_stack) <= undo_history.max_size
    /\ undo_last.op = "execute" => undo_history.redo_stack = <<>>
    /\ NoCommandTwice(undo_history)

\* An execute on a history whose undo stack was full: the oldest command
\* left from the front, and the redo stack is empty.
C40_Witness ==
    /\ undo_last.op = "execute"
    /\ undo_history.max_size = MaxHistory
    /\ Len(undo_history.undo_stack) = MaxHistory
    /\ undo_history.undo_stack[1] > 1
    /\ undo_history.redo_stack = <<>>

====
